---- MODULE Spec2Model ----
(***************************************************************************)
(* Model of the score-processor scheduling core: the cron matcher          *)
(* (AdvancedCronScheduler._matches_cron / matches_field) and the scheduler *)
(* loop (AdvancedCronScheduler.start / stop, CronScheduler.start / stop,   *)
(* and the shutdown path of main.lifespan).                                *)
(*                                                                         *)
(* Cron expressions and fields are TLA+ strings; the Python string         *)
(* operations the matcher uses (in, split, int, str) are modelled          *)
(* character by character.                                                 *)
(***************************************************************************)
EXTENDS Integers, Sequences, FiniteSets, TLC

VARIABLES
    tasks,         \* self.tasks: the entries, in registration order
    running,       \* self.running
    pc,            \* where the start() coroutine stands
    idx,           \* position of "for task in self.tasks"
    current_time,  \* the time sampled at the top of the tick (seconds)
    clock,         \* wall-clock time (seconds since the base instant)
    wake_at,       \* when the pending asyncio.sleep ends
    call,          \* per entry: its latest invocation
    fired,         \* history: <<entry, wall-clock minute>> of every invocation
    slow,          \* history: some invocation has taken time
    stop_pc,       \* history: where the loop stood when stop() was first called
    boot,          \* history: the time at which the process came up
    cfield,        \* matches_field probe: field_value
    ccur,          \* matches_field probe: current_value
    cfres,         \* matches_field probe: outcome ("none" before the call)
    cexpr,         \* _matches_cron probe: cron_expr
    cnow,          \* _matches_cron probe: current_time
    cres,          \* _matches_cron probe: returned value ("none" before the call)
    gorigin,       \* scrape request: who built it (the API or a scheduled task)
    gcron,         \* scrape request: the cron expression that fired it, if any
    greq,          \* scrape request: header key, body and query parameters
    gsecret,       \* ALA_SCORE_PROCESSOR_SECRET
    gnow,          \* now_in_ny() when scrape_handler runs
    gres,          \* scrape_handler up to the gate: outcome ("none" before)
    sdate,         \* get_current_season: the current_date argument
    stoday,        \* get_current_season: today's date in New York
    sres,          \* get_current_season: returned season ("none" before)
    svia,          \* get_current_season: the return statement taken
    fretries,      \* fetch_with_retry: retries
    fattempt,      \* fetch_with_retry: attempt
    fpc,           \* fetch_with_retry: where the coroutine stands
    fseen,         \* history: the status of every response received
    frequests,     \* history: number of GET requests sent
    fslept,        \* history: the backoff delays slept, in milliseconds
    xstates,       \* scrape_handler: states
    xconc,         \* scrape_handler: concurrency
    xpc,           \* scrape_handler: where the coroutine stands
    xi,            \* scrape_handler: i, the start of the current batch
    xidx,          \* scrape_handler: idx, the place in the current batch
    xfetch,        \* per place of states: the stage of its fetch_state_page
    xpage,         \* per place of states: the contest ids of the fetched page
    xmeta,         \* scrape_handler: meta
    xrows,         \* scrape_handler: rows
    xresp,         \* the response of scrape_handler
    xpauses,       \* history: number of inter-batch pauses slept
    xstore,        \* the table: contest ids of the stored rows
    xclock,        \* milliseconds since scrape_handler was called
    xstart,        \* per place of states: xclock when its fetch started
    drows,         \* dedupe_by_contest_id: rows
    dout,          \* dedupe_by_contest_id(rows)
    dagain,        \* dedupe_by_contest_id of that result
    dpc,           \* number of dedupe_by_contest_id calls made
    table,         \* the rows of the table ala_max_prep_scores
    supabase_env,  \* SUPABASE_URL and SUPABASE_SERVICE_ROLE_KEY are set
    urows,         \* chunked_upsert: rows
    usize,         \* chunked_upsert: chunk_size
    ui,            \* chunked_upsert: i
    utotal,        \* chunked_upsert: total
    upc,           \* chunked_upsert: where the call stands
    ucalls,        \* history: the store calls of the current chunked_upsert
    upass,         \* history: number of chunked_upsert calls made
    uret,          \* chunked_upsert: the returned total
    ubefore,       \* history: the table when chunked_upsert was called
    zentry,        \* finalize: "handler" (POST /finalize) or "direct"
    zkey,          \* finalize_handler: the API key of the request
    zstates,       \* finalize: states
    zsport,        \* finalize: sport
    zpc,           \* finalize_scores: where the call stands
    zrows,         \* finalize_scores: rows
    zupdates,      \* finalize_scores: updates
    zmissing,      \* finalize_scores: rows_missing_score
    zverify,       \* finalize_scores: rows_needing_verification
    zresp,         \* what the entry point answered
    zaccess,       \* history: the store accesses of the call
    zbefore,       \* history: the table when the entry point was called
    ehtml,         \* scrape: the containers of the page, li.c .contest-box-item
    esport,        \* scrape: sport
    eout,          \* scrape: the returned records
    epc,           \* scrape: "idle", "returned" or "raised"
    tsport,        \* schedule tables: the sport of the probed entries
    ttz,           \* schedule tables: the timezone of the probed entries
    tnow,          \* schedule tables: current_time of the tick (UTC)
    tscrape,       \* names of the scrape entries that match tnow
    tfinalize,     \* the finalize entry matches tnow
    tpc,           \* "idle" or "done"
    wpc,           \* schedule setup: "new", the loop it is in, or "done"
    wk,            \* schedule setup: position of the running loop in the table
    timezone_name, \* schedule setup: the loop variable
    wtasks,        \* schedule setup: self.tasks
    wruns,         \* history: what the fired entries ran
    pstates,       \* passes: states of the finalize calls
    psport,        \* passes: sport of the finalize calls
    phist,         \* history: the kinds of the passes made, in order
    pprev,         \* history: the table before the last pass
    pupdates,      \* history: updates of the last finalize pass
    pupserts,      \* history: store upserts of the last pass
    pfinal         \* history: ids a finalize pass has finalized

cronVars == <<cfield, ccur, cfres, cexpr, cnow, cres>>

gateVars == <<gorigin, gcron, greq, gsecret, gnow, gres>>

seasonVars == <<sdate, stoday, sres, svia>>

\* the state of the request pipeline (everything but the scheduler and the
\* matcher probes)
fetchVars == <<fretries, fattempt, fpc, fseen, frequests, fslept>>

scrapeVars == <<xstates, xconc, xpc, xi, xidx, xfetch, xpage, xmeta, xrows,
                xresp, xpauses, xstore, xclock, xstart>>

dedupeVars == <<drows, dout, dagain, dpc>>

tableVars == <<table, supabase_env>>

upsertVars == <<urows, usize, ui, utotal, upc, ucalls, upass, uret, ubefore>>

finalizeVars == <<zentry, zkey, zstates, zsport, zpc, zrows, zupdates,
                  zmissing, zverify, zresp, zaccess, zbefore>>

extractVars == <<ehtml, esport, eout, epc>>

timetableVars == <<tsport, ttz, tnow, tscrape, tfinalize, tpc>>

setupVars == <<wpc, wk, timezone_name, wtasks, wruns>>

passesVars == <<pstates, psport, phist, pprev, pupdates, pupserts, pfinal>>

\* the state of the store side: dedupe, upsert and finalize
storeVars == <<dedupeVars, tableVars, upsertVars, finalizeVars, extractVars,
               timetableVars, setupVars, passesVars>>

pipelineVars == <<gateVars, seasonVars, fetchVars, scrapeVars, storeVars>>

schedVars == <<tasks, running, pc, idx, current_time, clock, wake_at, call,
               fired, slow, stop_pc, boot>>

vars == <<schedVars, cronVars, pipelineVars>>

\* what an evaluation of one component leaves alone
notGate == <<schedVars, cronVars, seasonVars, fetchVars, scrapeVars,
            storeVars>>
notSeason == <<schedVars, cronVars, gateVars, fetchVars, scrapeVars,
              storeVars>>
notFetch == <<schedVars, cronVars, gateVars, seasonVars, scrapeVars,
             storeVars>>
notScrape == <<schedVars, cronVars, seasonVars, fetchVars, storeVars>>
notPipeline == <<schedVars, cronVars, gateVars, seasonVars, fetchVars,
                scrapeVars>>
notDedupe == <<notPipeline, tableVars, upsertVars, finalizeVars, extractVars,
               timetableVars, setupVars, passesVars>>
notUpsert == <<notPipeline, dedupeVars, finalizeVars, extractVars,
               timetableVars, setupVars, passesVars>>
notFinalize == <<notPipeline, dedupeVars, upsertVars, extractVars,
                 timetableVars, setupVars, passesVars>>
notExtract == <<notPipeline, dedupeVars, tableVars, upsertVars, finalizeVars,
                timetableVars, setupVars, passesVars>>
notTimetable == <<notPipeline, dedupeVars, tableVars, upsertVars,
                  finalizeVars, extractVars, setupVars, passesVars>>
notSetup == <<notPipeline, dedupeVars, tableVars, upsertVars, finalizeVars,
              extractVars, timetableVars, passesVars>>
notPasses == <<notPipeline, dedupeVars, upsertVars, finalizeVars,
               extractVars, timetableVars, setupVars>>

-----------------------------------------------------------------------------
(* Python string primitives *)

CharAt(s, i) == SubSeq(s, i, i)

\* c in s, for a one-character c
Contains(s, c) == \E i \in 1..Len(s) : CharAt(s, i) = c

\* index of the first occurrence of c in s, 0 if there is none
IndexOf(s, c) ==
    IF Contains(s, c)
    THEN CHOOSE i \in 1..Len(s) :
            /\ CharAt(s, i) = c
            /\ \A j \in 1..(i - 1) : CharAt(s, j) # c
    ELSE 0

\* s.split(c): the pieces between the occurrences of c, empty pieces kept
RECURSIVE Split(_, _)
Split(s, c) ==
    LET i == IndexOf(s, c) IN
    IF i = 0 THEN <<s>>
    ELSE <<SubSeq(s, 1, i - 1)>> \o Split(SubSeq(s, i + 1, Len(s)), c)

\* s.strip().split(): the maximal runs of non-blank characters
RECURSIVE SplitWs(_)
SplitWs(s) ==
    IF s = "" THEN <<>>
    ELSE IF CharAt(s, 1) = " " THEN SplitWs(SubSeq(s, 2, Len(s)))
    ELSE LET i == IndexOf(s, " ") IN
         IF i = 0 THEN <<s>>
         ELSE <<SubSeq(s, 1, i - 1)>> \o SplitWs(SubSeq(s, i + 1, Len(s)))

Digits == {"0", "1", "2", "3", "4", "5", "6", "7", "8", "9"}

DigitVal(c) ==
    CASE c = "0" -> 0 [] c = "1" -> 1 [] c = "2" -> 2 [] c = "3" -> 3
      [] c = "4" -> 4 [] c = "5" -> 5 [] c = "6" -> 6 [] c = "7" -> 7
      [] c = "8" -> 8 [] c = "9" -> 9

AllDigits(s) == Len(s) > 0 /\ \A i \in 1..Len(s) : CharAt(s, i) \in Digits

\* int(s) succeeds: an optional sign followed by decimal digits
IsInt(s) ==
    \/ AllDigits(s)
    \/ /\ Len(s) > 1
       /\ CharAt(s, 1) \in {"-", "+"}
       /\ AllDigits(SubSeq(s, 2, Len(s)))

RECURSIVE DigitsVal(_)
DigitsVal(s) ==
    IF s = "" THEN 0
    ELSE 10 * DigitsVal(SubSeq(s, 1, Len(s) - 1)) + DigitVal(CharAt(s, Len(s)))

\* int(s), for an s with IsInt(s)
PyInt(s) ==
    IF CharAt(s, 1) = "-" THEN 0 - DigitsVal(SubSeq(s, 2, Len(s)))
    ELSE IF CharAt(s, 1) = "+" THEN DigitsVal(SubSeq(s, 2, Len(s)))
    ELSE DigitsVal(s)

\* str(n)
PyStr(n) == ToString(n)

\* a % b of Python for b # 0: the result has the sign of b
PyMod(a, b) == IF b > 0 THEN a % b ELSE 0 - ((0 - a) % (0 - b))

\* item in list
InSeq(x, seq) == \E i \in 1..Len(seq) : seq[i] = x

-----------------------------------------------------------------------------
(* matches_field: "true", "false", or "raise" when the Python code raises   *)
(* (ValueError of int() or of the tuple unpacking, ZeroDivisionError of %). *)

Bool(b) == IF b THEN "true" ELSE "false"

\* start, end = map(int, text.split("-")) succeeds
RangeParses(text) ==
    LET p == Split(text, "-") IN Len(p) = 2 /\ IsInt(p[1]) /\ IsInt(p[2])

RangeStart(text) == PyInt(Split(text, "-")[1])
RangeEnd(text) == PyInt(Split(text, "-")[2])

\* faulty variant: the step is counted from 0 instead of from the start
StepFieldNoOffset(field_value, current_value) ==
    LET p == Split(field_value, "/") IN
    IF Len(p) # 2 THEN "raise"
    ELSE IF ~IsInt(p[2]) THEN "raise"
    ELSE LET base == p[1]
             step == PyInt(p[2])
         IN
         IF step = 0 THEN "raise"
         ELSE IF base = "*" THEN Bool(PyMod(current_value, step) = 0)
         ELSE IF Contains(base, "-")
         THEN IF ~RangeParses(base) THEN "raise"
              ELSE Bool(RangeStart(base) <= current_value
                        /\ current_value <= RangeEnd(base)
                        /\ PyMod(current_value, step) = 0)
         ELSE IF ~IsInt(base) THEN "raise"
              ELSE Bool(current_value >= PyInt(base)
                        /\ PyMod(current_value, step) = 0)

\* the branch for a field_value that contains "/"
StepField(field_value, current_value) ==
    LET p == Split(field_value, "/") IN
    IF Len(p) # 2 THEN "raise"
    ELSE IF ~IsInt(p[2]) THEN "raise"
    ELSE LET base == p[1]
             step == PyInt(p[2])
         IN
         IF base = "*"
         THEN IF step = 0 THEN "raise"
              ELSE Bool(PyMod(current_value, step) = 0)
         ELSE IF Contains(base, "-")
         THEN IF ~RangeParses(base) THEN "raise"
              ELSE LET start == RangeStart(base)
                       end == RangeEnd(base)
                   IN
                   IF ~(start <= current_value /\ current_value <= end)
                   THEN "false"
                   ELSE IF step = 0 THEN "raise"
                   ELSE Bool(PyMod(current_value - start, step) = 0)
         ELSE IF ~IsInt(base) THEN "raise"
              ELSE LET start == PyInt(base) IN
                   IF ~(current_value >= start) THEN "false"
                   ELSE IF step = 0 THEN "raise"
                   ELSE Bool(PyMod(current_value - start, step) = 0)

\* faulty variant: the list rule is tried before the range rule
matches_field_list_first(field_value, current_value) ==
    IF field_value = "*" THEN "true"
    ELSE IF Contains(field_value, "/") THEN StepField(field_value, current_value)
    ELSE IF Contains(field_value, ",")
    THEN Bool(InSeq(PyStr(current_value), Split(field_value, ",")))
    ELSE IF Contains(field_value, "-")
    THEN IF ~RangeParses(field_value) THEN "raise"
         ELSE Bool(RangeStart(field_value) <= current_value
                   /\ current_value <= RangeEnd(field_value))
    ELSE Bool(PyStr(current_value) = field_value)

\* def matches_field(field_value, current_value, max_value)
matches_field(field_value, current_value) ==
    IF field_value = "*" THEN "true"
    ELSE IF Contains(field_value, "/") THEN StepField(field_value, current_value)
    ELSE IF Contains(field_value, "-")
    THEN IF ~RangeParses(field_value) THEN "raise"
         ELSE Bool(RangeStart(field_value) <= current_value
                   /\ current_value <= RangeEnd(field_value))
    ELSE IF Contains(field_value, ",")
    THEN Bool(InSeq(PyStr(current_value), Split(field_value, ",")))
    ELSE Bool(PyStr(current_value) = field_value)

-----------------------------------------------------------------------------
(* _matches_cron *)

\* faulty variant: the day-of-week field is not looked at
RECURSIVE AndChainNoDow(_, _, _)
AndChainNoDow(parts, values, i) ==
    IF i > Len(parts) - 1 THEN "true"
    ELSE LET r == matches_field(parts[i], values[i]) IN
         IF r = "true" THEN AndChainNoDow(parts, values, i + 1) ELSE r

\* the and-chain over the five fields: the first field that does not return
\* True decides, the fields after it are not evaluated
RECURSIVE AndChain(_, _, _)
AndChain(parts, values, i) ==
    IF i > Len(parts) THEN "true"
    ELSE LET r == matches_field(parts[i], values[i]) IN
         IF r = "true" THEN AndChain(parts, values, i + 1) ELSE r

FieldValues(now) ==
    <<now.minute, now.hour, now.day,
      now.month, now.weekday>>

\* the body of the try block
CronBody(cron_expr, now) ==
    LET parts == SplitWs(cron_expr) IN
    IF Len(parts) # 5 THEN "false"
    ELSE AndChain(parts, FieldValues(now), 1)

\* faulty variant: no try/except around the body
CatchNothing(outcome) == outcome

\* except Exception: return False
CatchAll(outcome) == IF outcome = "raise" THEN "false" ELSE outcome

matches_cron(cron_expr, now) == CatchAll(CronBody(cron_expr, now))

-----------------------------------------------------------------------------
(* Inputs of the matcher probes *)

MaxParts == 3          \* atoms per field probed with matches_field
MaxCur == 6            \* probed current_value is in 0..MaxCur
MaxProbeParts == 2     \* atoms per field probed inside an expression
MaxExprFields == 6     \* fields per probed expression of wildcards

Atoms == {"", "*", "x", "0", "1", "2", "3", "03"}
Seps == {"/", "-", ","}

\* fields made of exactly n atoms joined by separators
RECURSIVE FieldsOf(_)
FieldsOf(n) ==
    IF n = 1 THEN Atoms
    ELSE {f \o s \o a : f \in FieldsOf(n - 1), s \in Seps, a \in Atoms}

Fields == UNION {FieldsOf(n) : n \in 1..MaxParts}

\* fields probed inside an expression: the short ones and samples of the
\* forms the schedule tables use and of the malformed forms
SampleFields ==
    {"*/3", "*/10", "*/15", "21-23", "0-3", "3,4,5", "5,6,0", "2,4,5,6",
     "0-30/3", "30", "20", "1-3,5", "1,3-5", "0-3/0", "1-x", "x-3/2", "*/x",
     "1/2/3", "1-2-3", "3/0", "*/-3"}

ProbeFields == UNION {FieldsOf(n) : n \in 1..MaxProbeParts} \cup SampleFields

\* " ".join(fields)
RECURSIVE Join(_)
Join(fields) ==
    IF Len(fields) = 0 THEN ""
    ELSE IF Len(fields) = 1 THEN fields[1]
    ELSE fields[1] \o " " \o Join(Tail(fields))

\* the expression of wildcards whose field at position p is f
WithField(f, p) == Join([i \in 1..5 |-> IF i = p THEN f ELSE "*"])

Wildcards(n) == Join([i \in 1..n |-> "*"])

\* expressions of the schedule tables and of setup_scheduled_tasks
TableExprs ==
    {"*/3 21-23 * * 3,4,5", "0-30/3 0-3 * * 4,5,6", "*/10 22-23 * * 1,3,4,5",
     "*/15 0-3 * * *", "30 4 * * 5,6,0", "30 3 * * 0,1,2,3,4,5,6",
     "0 4 * * 2,4,5,6", "0 20 * * 3,4,5", "0 21 * * 4"}

Exprs ==
    {WithField(f, p) : f \in ProbeFields, p \in 1..5}
    \cup {Wildcards(n) : n \in 0..MaxExprFields}
    \cup {" " \o Wildcards(n) \o "  " : n \in 0..MaxExprFields}
    \cup {"*  *   * * *", "3 3  3 3 3"}
    \cup TableExprs

Instant(mi, h, d, mo, wd) ==
    [minute |-> mi, hour |-> h, day |-> d, month |-> mo, weekday |-> wd]

\* sampled values of current_time (weekday 0 = Monday)
Instants ==
    {Instant(21, 22, 16, 10, 3), Instant(21, 22, 19, 10, 6),
     Instant(3, 3, 3, 3, 3), Instant(1, 1, 1, 1, 1), Instant(0, 0, 1, 1, 0),
     Instant(30, 4, 2, 2, 2), Instant(0, 20, 5, 9, 4)}

\* datetime.weekday(): 0 = Monday .. 6 = Sunday, from the proleptic Gregorian
\* ordinal of the date
IsLeap(y) == y % 4 = 0 /\ (y % 100 # 0 \/ y % 400 = 0)

DaysInMonth(y, mo) ==
    IF mo = 2 THEN (IF IsLeap(y) THEN 29 ELSE 28)
    ELSE IF mo \in {4, 6, 9, 11} THEN 30 ELSE 31

RECURSIVE DaysBeforeMonth(_, _)
DaysBeforeMonth(y, mo) ==
    IF mo = 1 THEN 0
    ELSE DaysBeforeMonth(y, mo - 1) + DaysInMonth(y, mo - 1)

ToOrdinal(y, mo, d) ==
    LET p == y - 1 IN
    p * 365 + (p \div 4) - (p \div 100) + (p \div 400)
      + DaysBeforeMonth(y, mo) + d

Weekday(y, mo, d) == (ToOrdinal(y, mo, d) + 6) % 7

\* the datetime y-mo-d h:mi as _matches_cron reads it
DatedInstant(y, mo, d, h, mi) == Instant(mi, h, d, mo, Weekday(y, mo, d))

None == "none"

Epoch == [minute |-> 0, hour |-> 0, day |-> 1, month |-> 1, weekday |-> 0]

-----------------------------------------------------------------------------
(* The scheduler: AdvancedCronScheduler / CronScheduler *)

MaxTasks == 2          \* entries registered before start()
MaxClock == 180        \* the modelled stretch of wall-clock time, in seconds

MinuteSeconds == 60    \* strftime("%Y-%m-%d %H:%M") truncates to the minute

\* faulty variant: a polling interval of a minute and a half
SleepTooLong == MinuteSeconds + (MinuteSeconds \div 2)

SleepSeconds == 30     \* await asyncio.sleep(30)

\* time is observed once per sleep interval
Quantum == SleepSeconds

NoRun == 0 - 1         \* "last_run": None

\* clock = 0 is Thursday 2025-10-16 21:58:00
BaseInstant == Instant(58, 21, 16, 10, 3)

\* current_time.strftime("%Y-%m-%d %H:%M"), as the number of the minute
MinuteOf(t) == t \div MinuteSeconds

\* the minute, hour, day, month and weekday() of the datetime at clock t
TimeAt(t) ==
    LET m == BaseInstant.minute + MinuteOf(t)
        h == BaseInstant.hour + (m \div 60)
    IN Instant(m % 60, h % 24, BaseInstant.day, BaseInstant.month,
               BaseInstant.weekday)

\* the (cron_expression, task_func) pairs given to schedule(): a coroutine
\* function every minute, a plain function every even minute from Thursday to
\* Saturday, and a coroutine function under an expression that does not parse
Schedulable ==
    {[cron |-> "* * * * *", is_async |-> TRUE],
     [cron |-> "*/2 * * * 3,4,5", is_async |-> FALSE],
     [cron |-> "*/0 * * * *", is_async |-> TRUE]}

Entries == 1..Len(tasks)

NoCall == [state |-> "none", minute |-> NoRun]

\* the scheduler after __init__, nothing registered and not started
SchedIdle ==
    /\ tasks = <<>>
    /\ running = FALSE
    /\ pc = "new"
    /\ idx = 0
    /\ current_time = 0
    /\ clock = 0
    /\ wake_at = 0
    /\ call = <<>>
    /\ fired = {}
    /\ slow = FALSE
    /\ stop_pc = None
    /\ boot = 0

CronIdle ==
    /\ cfield = ""
    /\ ccur = 0
    /\ cfres = None
    /\ cexpr = ""
    /\ cnow = Epoch
    /\ cres = None

\* no scrape request has come in
GateIdle ==
    /\ gorigin = None
    /\ gcron = None
    /\ greq = None
    /\ gsecret = None
    /\ gnow = Epoch
    /\ gres = None

\* get_current_season has not been called
SeasonIdle ==
    /\ sdate = [given |-> FALSE, month |-> 1, day |-> 1]
    /\ stoday = [month |-> 1, day |-> 1]
    /\ sres = None
    /\ svia = None

\* fetch_with_retry has not been called
FetchIdle ==
    /\ fretries = 0
    /\ fattempt = 0
    /\ fpc = "idle"
    /\ fseen = <<>>
    /\ frequests = 0
    /\ fslept = <<>>

NoResponse == [status |-> None, inserted |-> 0, skipped |-> 0]

\* scrape_handler is not running and the table is empty
ScrapeIdle ==
    /\ xstates = <<>>
    /\ xconc = 1
    /\ xpc = "idle"
    /\ xi = 0
    /\ xidx = 0
    /\ xfetch = <<>>
    /\ xpage = <<>>
    /\ xmeta = <<>>
    /\ xrows = <<>>
    /\ xresp = NoResponse
    /\ xpauses = 0
    /\ xstore = {}
    /\ xclock = 0
    /\ xstart = <<>>

DedupeIdle ==
    /\ drows = <<>>
    /\ dout = <<>>
    /\ dagain = <<>>
    /\ dpc = 0

TableIdle ==
    /\ table = <<>>
    /\ supabase_env = TRUE

UpsertIdle ==
    /\ urows = <<>>
    /\ usize = 1
    /\ ui = 0
    /\ utotal = 0
    /\ upc = "idle"
    /\ ucalls = <<>>
    /\ upass = 0
    /\ uret = 0
    /\ ubefore = <<>>

\* no answer yet
NoAnswer ==
    [kind |-> None, status |-> None, error |-> None, rows |-> 0,
     rowsNeedingVerification |-> 0, rowsMissingScore |-> 0,
     rowsSuccessfullyUpdated |-> 0]

FinalizeIdle ==
    /\ zentry = "handler"
    /\ zkey = None
    /\ zstates = <<>>
    /\ zsport = ""
    /\ zpc = "idle"
    /\ zrows = <<>>
    /\ zupdates = <<>>
    /\ zmissing = 0
    /\ zverify = 0
    /\ zresp = NoAnswer
    /\ zaccess = <<>>
    /\ zbefore = <<>>

ExtractIdle ==
    /\ ehtml = <<>>
    /\ esport = "football"
    /\ eout = <<>>
    /\ epc = "idle"

TimetableIdle ==
    /\ tsport = "football"
    /\ ttz = "eastern"
    /\ tnow = Epoch
    /\ tscrape = {}
    /\ tfinalize = FALSE
    /\ tpc = "idle"

SetupIdle ==
    /\ wpc = "new"
    /\ wk = 0
    /\ timezone_name = None
    /\ wtasks = <<>>
    /\ wruns = <<>>

PassesIdle ==
    /\ pstates = <<>>
    /\ psport = ""
    /\ phist = <<>>
    /\ pprev = <<>>
    /\ pupdates = <<>>
    /\ pupserts = 0
    /\ pfinal = {}

StoreIdle ==
    DedupeIdle /\ TableIdle /\ UpsertIdle /\ FinalizeIdle /\ ExtractIdle /\ TimetableIdle /\ SetupIdle
    /\ PassesIdle

PipelineIdle ==
    GateIdle /\ SeasonIdle /\ FetchIdle /\ ScrapeIdle /\ StoreIdle

NotGateIdle ==
    SchedIdle /\ CronIdle /\ SeasonIdle /\ FetchIdle /\ ScrapeIdle /\ StoreIdle
NotSeasonIdle ==
    SchedIdle /\ CronIdle /\ GateIdle /\ FetchIdle /\ ScrapeIdle /\ StoreIdle
NotFetchIdle ==
    SchedIdle /\ CronIdle /\ GateIdle /\ SeasonIdle /\ ScrapeIdle /\ StoreIdle
NotScrapeIdle ==
    SchedIdle /\ CronIdle /\ SeasonIdle /\ FetchIdle /\ StoreIdle
NotPipelineIdle ==
    SchedIdle /\ CronIdle /\ GateIdle /\ SeasonIdle /\ FetchIdle /\ ScrapeIdle
NotDedupeIdle ==
    NotPipelineIdle /\ TableIdle /\ UpsertIdle /\ FinalizeIdle /\ ExtractIdle /\ TimetableIdle /\ SetupIdle /\ PassesIdle
NotUpsertIdle ==
    NotPipelineIdle /\ DedupeIdle /\ FinalizeIdle /\ ExtractIdle /\ TimetableIdle /\ SetupIdle /\ PassesIdle
NotFinalizeIdle ==
    NotPipelineIdle /\ DedupeIdle /\ UpsertIdle /\ ExtractIdle /\ TimetableIdle /\ SetupIdle /\ PassesIdle
NotExtractIdle ==
    NotPipelineIdle /\ DedupeIdle /\ TableIdle /\ UpsertIdle /\ FinalizeIdle /\ TimetableIdle /\ SetupIdle /\ PassesIdle
NotTimetableIdle ==
    NotPipelineIdle /\ DedupeIdle /\ TableIdle /\ UpsertIdle /\ FinalizeIdle /\ ExtractIdle /\ SetupIdle /\ PassesIdle
NotSetupIdle ==
    NotPipelineIdle /\ DedupeIdle /\ TableIdle /\ UpsertIdle /\ FinalizeIdle /\ ExtractIdle /\ TimetableIdle /\ PassesIdle
NotPassesIdle ==
    NotPipelineIdle /\ DedupeIdle /\ UpsertIdle /\ FinalizeIdle /\ ExtractIdle /\ TimetableIdle /\ SetupIdle

Init ==
    /\ tasks = <<>>
    /\ running = FALSE
    /\ pc = "new"
    /\ idx = 0
    /\ boot \in {0, Quantum}
    /\ clock = boot
    /\ current_time = boot
    /\ wake_at = boot
    /\ call = <<>>
    /\ fired = {}
    /\ slow = FALSE
    /\ stop_pc = None
    /\ CronIdle
    /\ PipelineIdle

\* schedule(cron_expression, task_func, name)
schedule(cron_expression, is_async) ==
    /\ pc = "new"
    /\ Len(tasks) < MaxTasks
    /\ tasks' = Append(tasks, [cron |-> cron_expression, is_async |-> is_async,
                               last_run |-> NoRun])
    /\ call' = Append(call, NoCall)
    /\ UNCHANGED <<running, pc, idx, current_time, clock, wake_at, fired, slow,
                   stop_pc, boot, cronVars,
                   pipelineVars>>

\* start(): self.running = True, then the while loop
start ==
    /\ pc = "new"
    /\ running' = TRUE
    /\ pc' = "top"
    /\ UNCHANGED <<tasks, idx, current_time, clock, wake_at, call, fired, slow,
                   stop_pc, boot, cronVars,
                   pipelineVars>>

\* while self.running: current_time = utcnow(); current_minute = strftime(...)
LoopTest ==
    /\ pc = "top"
    /\ IF running
       THEN /\ pc' = "for"
            /\ idx' = 1
            /\ current_time' = clock
       ELSE /\ pc' = "exited"
            /\ UNCHANGED <<idx, current_time>>
    /\ UNCHANGED <<tasks, running, clock, wake_at, call, fired, slow, stop_pc,
                   boot, cronVars,
                   pipelineVars>>

\* faulty variant: last_run compared with the untruncated time
AlreadyFiredExact(i) == tasks[i].last_run = current_time

\* task["last_run"] == current_minute
AlreadyFired(i) == tasks[i].last_run = MinuteOf(current_time)

\* if task["last_run"] == current_minute: continue
SkipFired ==
    /\ pc = "for"
    /\ idx <= Len(tasks)
    /\ AlreadyFired(idx)
    /\ idx' = idx + 1
    /\ UNCHANGED <<tasks, running, pc, current_time, clock, wake_at, call,
                   fired, slow, stop_pc, boot, cronVars,
                   pipelineVars>>

\* if self._matches_cron(task["cron"], current_time): is false
SkipNoMatch ==
    /\ pc = "for"
    /\ idx <= Len(tasks)
    /\ ~AlreadyFired(idx)
    /\ matches_cron(tasks[idx].cron, TimeAt(current_time)) # "true"
    /\ idx' = idx + 1
    /\ UNCHANGED <<tasks, running, pc, current_time, clock, wake_at, call,
                   fired, slow, stop_pc, boot, cronVars,
                   pipelineVars>>

\* faulty variant: the task is started and not awaited
DispatchDetached(i) == [pc |-> "for", idx |-> i + 1]

\* await task["function"]() suspends start() until the task is over, and
\* task["function"]() of a plain function blocks the whole event loop
Dispatch(i) ==
    [pc |-> IF tasks[i].is_async THEN "awaiting" ELSE "blocking", idx |-> i]

\* the task of the matching entry is called
Invoke ==
    /\ pc = "for"
    /\ idx <= Len(tasks)
    /\ ~AlreadyFired(idx)
    /\ matches_cron(tasks[idx].cron, TimeAt(current_time)) = "true"
    /\ call' = [call EXCEPT ![idx] = [state |-> "running",
                                      minute |-> MinuteOf(current_time)]]
    /\ fired' = fired \cup {<<idx, MinuteOf(clock)>>}
    /\ pc' = Dispatch(idx).pc
    /\ idx' = Dispatch(idx).idx
    /\ UNCHANGED <<tasks, running, current_time, clock, wake_at, slow, stop_pc,
                   boot, cronVars,
                   pipelineVars>>

\* the loop is suspended in the call of entry i
Suspended(i) == pc \in {"awaiting", "blocking"} /\ idx = i

\* the task returns: task["last_run"] = current_minute, and the for loop goes
\* on (a call start() is not suspended in only ends)
TaskReturns(i) ==
    /\ call[i].state = "running"
    /\ call' = [call EXCEPT ![i].state = "ok"]
    /\ IF Suspended(i)
       THEN /\ tasks' = [tasks EXCEPT ![i].last_run = MinuteOf(current_time)]
            /\ pc' = "for"
            /\ idx' = i + 1
       ELSE UNCHANGED <<tasks, pc, idx>>
    /\ UNCHANGED <<running, current_time, clock, wake_at, fired, slow, stop_pc,
                   boot, cronVars,
                   pipelineVars>>

\* faulty variant: no except clause around the call
ExceptNothing(error) == FALSE

\* which exceptions "except Exception" catches
ExceptException(error) == error = "Exception"

\* where start() goes on after the call of entry i raised error
AfterRaise(i, error) ==
    IF ExceptException(error)
    THEN [pc |-> "for", idx |-> i + 1]
    ELSE [pc |-> "failed", idx |-> i]

\* the task raises an Exception: the assignment of last_run is skipped
TaskRaises(i) ==
    /\ call[i].state = "running"
    /\ call' = [call EXCEPT ![i].state = "raised"]
    /\ IF Suspended(i)
       THEN /\ pc' = AfterRaise(i, "Exception").pc
            /\ idx' = AfterRaise(i, "Exception").idx
       ELSE UNCHANGED <<pc, idx>>
    /\ UNCHANGED <<tasks, running, current_time, clock, wake_at, fired, slow,
                   stop_pc, boot, cronVars,
                   pipelineVars>>

\* for task in self.tasks is over: await asyncio.sleep(30)
Sleep ==
    /\ pc = "for"
    /\ idx > Len(tasks)
    /\ pc' = "sleeping"
    /\ wake_at' = clock + SleepSeconds
    /\ UNCHANGED <<tasks, running, idx, current_time, clock, call, fired, slow,
                   stop_pc, boot, cronVars,
                   pipelineVars>>

\* the pending asyncio.sleep is over
SleepOver == clock >= wake_at

Wake ==
    /\ pc = "sleeping"
    /\ SleepOver
    /\ pc' = "top"
    /\ UNCHANGED <<tasks, running, idx, current_time, clock, wake_at, call,
                   fired, slow, stop_pc, boot, cronVars,
                   pipelineVars>>

\* time passes while start() sleeps or a task is in progress
TimePasses ==
    /\ \/ pc = "sleeping" /\ ~SleepOver
       \/ \E i \in Entries : call[i].state = "running"
    /\ clock + Quantum <= MaxClock
    /\ clock' = clock + Quantum
    /\ slow' = (slow \/ \E i \in Entries : call[i].state = "running")
    /\ UNCHANGED <<tasks, running, pc, idx, current_time, wake_at, call, fired,
                   stop_pc, boot, cronVars,
                   pipelineVars>>

\* another coroutine runs only while start() is suspended in an await
AtAwait == pc \in {"sleeping", "awaiting"}

\* stop(): self.running = False
stop ==
    /\ AtAwait
    /\ running' = FALSE
    /\ stop_pc' = IF stop_pc = None THEN pc ELSE stop_pc
    /\ UNCHANGED <<tasks, pc, idx, current_time, clock, wake_at, call, fired,
                   slow, boot, cronVars,
                   pipelineVars>>

\* lifespan on shutdown: stop(); scheduler_task.cancel(); await scheduler_task.
\* CancelledError is raised at the await start() is suspended in: out of the
\* sleep, or through the task in progress and then past "except Exception"
Shutdown ==
    /\ AtAwait
    /\ running' = FALSE
    /\ stop_pc' = IF stop_pc = None THEN pc ELSE stop_pc
    /\ call' = [i \in DOMAIN call |->
                  IF call[i].state = "running"
                  THEN [call[i] EXCEPT !.state = "cancelled"] ELSE call[i]]
    /\ pc' = IF pc = "awaiting"
             THEN AfterRaise(idx, "CancelledError").pc ELSE "failed"
    /\ idx' = IF pc = "awaiting"
              THEN AfterRaise(idx, "CancelledError").idx ELSE idx
    /\ UNCHANGED <<tasks, current_time, clock, wake_at, fired, slow, boot,
                   cronVars,
                   pipelineVars>>

Next ==
    \/ \E e \in Schedulable : schedule(e.cron, e.is_async)
    \/ start
    \/ LoopTest
    \/ SkipFired
    \/ SkipNoMatch
    \/ Invoke
    \/ \E i \in Entries : TaskReturns(i)
    \/ \E i \in Entries : TaskRaises(i)
    \/ Sleep
    \/ Wake
    \/ TimePasses
    \/ stop
    \/ Shutdown

Spec == Init /\ [][Next]_vars

InitField ==
    /\ cfield \in Fields
    /\ ccur \in 0..MaxCur
    /\ cfres = None
    /\ cexpr = ""
    /\ cnow = Epoch
    /\ cres = None
    /\ SchedIdle
    /\ PipelineIdle

\* one call matches_field(cfield, ccur)
EvalField ==
    /\ cfres = None
    /\ cfres' = matches_field(cfield, ccur)
    /\ UNCHANGED <<cfield, ccur, cexpr, cnow, cres, schedVars, pipelineVars>>

NextField == EvalField

SpecField == InitField /\ [][NextField]_vars

InitCron ==
    /\ cexpr \in Exprs
    /\ cnow \in Instants
    /\ cres = None
    /\ cfield = ""
    /\ ccur = 0
    /\ cfres = None
    /\ SchedIdle
    /\ PipelineIdle

\* one call self._matches_cron(cexpr, cnow)
EvalCron ==
    /\ cres = None
    /\ cres' = matches_cron(cexpr, cnow)
    /\ UNCHANGED <<cexpr, cnow, cfield, ccur, cfres, schedVars, pipelineVars>>

NextCron == EvalCron

SpecCron == InitCron /\ [][NextCron]_vars

-----------------------------------------------------------------------------
(* The scrape request up to the Time-Window Gate: validate_api_key, to_mdy, *)
(* within_run_window_ny and the head of scrape_handler.  A JSON value is    *)
(* written as Python prints it: "True", "False", a string, None when the    *)
(* key is absent.                                                           *)

\* truth value of a Python object
Truthy(v) == v \notin {None, "False", ""}

\* a or b
PyOr(a, b) == IF Truthy(a) THEN a ELSE b

\* CronScheduler's matches_field: "*", a list, or an exact value
CronScheduler_matches_field(field_value, current_value) ==
    IF field_value = "*" THEN TRUE
    ELSE IF Contains(field_value, ",")
    THEN InSeq(PyStr(current_value), Split(field_value, ","))
    ELSE PyStr(current_value) = field_value

\* faulty variant: the weekday counted as cron does, 0 = Sunday
CronScheduler_matches_cron_sunday0(cron_expr, now) ==
    LET parts == SplitWs(cron_expr)
        values == <<now.minute, now.hour, now.day, now.month,
                    (now.weekday + 1) % 7>>
    IN
    /\ Len(parts) = 5
    /\ \A k \in 1..5 : CronScheduler_matches_field(parts[k], values[k])

\* CronScheduler._matches_cron
CronScheduler_matches_cron(cron_expr, now) ==
    LET parts == SplitWs(cron_expr) IN
    /\ Len(parts) = 5
    /\ \A k \in 1..5 : CronScheduler_matches_field(parts[k], FieldValues(now)[k])

\* the pieces of s between the characters of the class seps
RECURSIVE SplitAny(_, _)
SplitAny(s, seps) ==
    LET hits == {i \in 1..Len(s) : CharAt(s, i) \in seps} IN
    IF hits = {} THEN <<s>>
    ELSE LET i == CHOOSE k \in hits : \A j \in hits : k <= j IN
         <<SubSeq(s, 1, i - 1)>> \o SplitAny(SubSeq(s, i + 1, Len(s)), seps)

\* \d{lo,hi}
DigitRun(s, lo, hi) == AllDigits(s) /\ Len(s) >= lo /\ Len(s) <= hi

\* to_mdy(input_str): M/D/YYYY from M/D/YYYY, YYYY-MM-DD or YYYY/MM/DD, None
\* for anything else
to_mdy(input_str) ==
    IF ~Truthy(input_str) THEN None
    ELSE LET mdy == Split(input_str, "/")
             iso == SplitAny(input_str, {"-", "/"})
         IN
         IF /\ Len(mdy) = 3
            /\ DigitRun(mdy[1], 1, 2)
            /\ DigitRun(mdy[2], 1, 2)
            /\ DigitRun(mdy[3], 4, 4)
         THEN PyStr(PyInt(mdy[1])) \o "/" \o PyStr(PyInt(mdy[2])) \o "/" \o mdy[3]
         ELSE IF /\ Len(iso) = 3
                 /\ DigitRun(iso[1], 4, 4)
                 /\ DigitRun(iso[2], 1, 2)
                 /\ DigitRun(iso[3], 1, 2)
         THEN PyStr(PyInt(iso[2])) \o "/" \o PyStr(PyInt(iso[3])) \o "/" \o iso[1]
         ELSE None

\* faulty variant: the window ends at 22h
within_run_window_early(d) ==
    d.weekday \in {3, 4, 5} /\ 18 <= d.hour /\ d.hour < 23

\* within_run_window_ny(), d being now_in_ny()
within_run_window_ny(d) ==
    d.weekday \in {3, 4, 5} /\ 18 <= d.hour /\ d.hour <= 23

\* validate_api_key: "ok", or the status of the HTTPException it raises
validate_api_key(expected_key, provided_key) ==
    IF ~Truthy(expected_key) THEN "500"
    ELSE IF ~Truthy(provided_key) THEN "401"
    ELSE IF provided_key # expected_key THEN "403"
    ELSE "ok"

\* scrape_handler: date_override_mdy
DateOverrideMdy(req) ==
    LET date_override == PyOr(req.date, req.qdate) IN
    IF Truthy(date_override) THEN to_mdy(date_override) ELSE None

\* scrape_handler: force, as a truth value
Force(req) ==
    \/ Truthy(req.force)
    \/ req.qforce = "1"
    \/ Truthy(DateOverrideMdy(req))

\* scrape_handler up to the gate: the status of the HTTPException, "skipped"
\* for the 'outside window' response, "run" when the fetch pipeline is entered
scrape_gate(req, secret, now) ==
    LET auth == validate_api_key(secret, req.key) IN
    IF auth # "ok" THEN auth
    ELSE IF ~within_run_window_ny(now) /\ ~Force(req) THEN "skipped"
    ELSE "run"

Request(key, date, force, qdate, qforce) ==
    [key |-> key, date |-> date, force |-> force, qdate |-> qdate,
     qforce |-> qforce]

\* MockRequest({"states": ..., "sport": ..., "force": force})
MockRequest(secret, force) ==
    Request(PyOr(secret, ""), None, force, None, None)

\* faulty variant: the default scheduled scrape is forced
scheduled_scrape_task_forced(secret) == MockRequest(secret, "True")

\* the request built by scheduled_scrape_task
scheduled_scrape_task(secret) == MockRequest(secret, "False")

\* the request built by scheduled_scrape_with_config(force = True), for
\* scheduled_football_scrape and manual_timezone_scrape
scheduled_scrape_forced(secret) == MockRequest(secret, "True")

\* the Monday-to-Sunday week of 2025-10-13, hour by hour
GateInstants ==
    {DatedInstant(2025, 10, d, h, 0) : d \in 13..19, h \in 0..23}

Secrets == {None, "s3cret"}

DateInputs == {None, "", "10/17/2025", "2025-10-17", "10-17-2025"}

\* requests of the API: every combination of date and force parameters under
\* the right key, and a plain request under a missing and a wrong key
ApiRequests ==
    {Request("s3cret", d, f, qd, qf) :
        d \in DateInputs, f \in {None, "True", "False"},
        qd \in {None, "2025/1/5"}, qf \in {None, "1", "true"}}
    \cup {Request(k, None, None, None, None) : k \in {None, "wrong"}}

\* SCRAPE_SCHEDULE: the default, and a schedule set at Monday noon
ScrapeSchedules == {"0 20 * * 3,4,5", "0 12 * * 0"}

\* FOOTBALL_SCHEDULE
FootballSchedules == {"0 21 * * 4"}

\* scrape entries of the timezone tables, matched against UTC while the gate
\* reads New York time
TimezoneSchedules == {"*/3 21-23 * * 3,4,5", "0-30/3 0-3 * * 4,5,6"}

InitGate ==
    /\ gsecret \in Secrets
    /\ gnow \in GateInstants
    /\ gres = None
    /\ \/ /\ gorigin = "api"
          /\ gcron = None
          /\ greq \in ApiRequests
       \/ /\ gorigin = "default_scrape"
          /\ gcron \in ScrapeSchedules
          /\ CronScheduler_matches_cron(gcron, gnow)
          /\ greq = scheduled_scrape_task(gsecret)
       \/ /\ gorigin = "football_scrape"
          /\ gcron \in FootballSchedules
          /\ CronScheduler_matches_cron(gcron, gnow)
          /\ greq = scheduled_scrape_forced(gsecret)
       \/ /\ gorigin = "timezone_scrape"
          /\ gcron \in TimezoneSchedules
          /\ greq = scheduled_scrape_forced(gsecret)
    /\ NotGateIdle

\* scrape_handler(request), up to the Time-Window Gate
EvalGate ==
    /\ gres = None
    /\ gres' = scrape_gate(greq, gsecret, gnow)
    /\ UNCHANGED <<gorigin, gcron, greq, gsecret, gnow, notGate>>

NextGate == EvalGate

SpecGate == InitGate /\ [][NextGate]_vars

-----------------------------------------------------------------------------
(* Season resolution: SEASONAL_SPORTS and get_current_season *)

\* faulty variant: late_fall declared before fall
SEASONAL_SPORTS_late_fall_first ==
    <<[season |-> "late_fall", months |-> <<11, 12>>],
      [season |-> "fall", months |-> <<8, 9, 10, 11>>],
      [season |-> "winter", months |-> <<12, 1, 2>>],
      [season |-> "late_winter", months |-> <<2, 3>>],
      [season |-> "spring", months |-> <<3, 4, 5, 6>>]>>

\* SEASONAL_SPORTS: the profiles in the order of the dict, with their months
SEASONAL_SPORTS ==
    <<[season |-> "fall", months |-> <<8, 9, 10, 11>>],
      [season |-> "late_fall", months |-> <<11, 12>>],
      [season |-> "winter", months |-> <<12, 1, 2>>],
      [season |-> "late_winter", months |-> <<2, 3>>],
      [season |-> "spring", months |-> <<3, 4, 5, 6>>]>>

\* for season, config in SEASONAL_SPORTS.items(), from the k-th item on: the
\* first profile with current_month in config["months"], else the fallback
RECURSIVE SeasonFrom(_, _)
SeasonFrom(current_month, k) ==
    IF k > Len(SEASONAL_SPORTS)
    THEN [season |-> "fall", via |-> "fallback"]
    ELSE IF InSeq(current_month, SEASONAL_SPORTS[k].months)
    THEN [season |-> SEASONAL_SPORTS[k].season, via |-> "months"]
    ELSE SeasonFrom(current_month, k + 1)

\* get_current_season(current_date), today being the date in New York
get_current_season(current_date, today) ==
    LET current_month == IF current_date.given THEN current_date.month
                         ELSE today.month
    IN SeasonFrom(current_month, 1)

MaxDays == 3           \* sampled days per month

\* sampled days of the month
SeasonDays == {1 + 9 * k : k \in 0..(MaxDays - 1)}

SeasonDates == {[month |-> mo, day |-> d] : mo \in 1..12, d \in SeasonDays}

InitSeason ==
    /\ \/ \E c \in SeasonDates :
             sdate = [given |-> TRUE, month |-> c.month, day |-> c.day]
       \/ sdate = [given |-> FALSE, month |-> 1, day |-> 1]
    /\ stoday \in SeasonDates
    /\ sres = None
    /\ svia = None
    /\ NotSeasonIdle

\* one call get_current_season(sdate)
EvalSeason ==
    /\ sres = None
    /\ sres' = get_current_season(sdate, stoday).season
    /\ svia' = get_current_season(sdate, stoday).via
    /\ UNCHANGED <<sdate, stoday, notSeason>>

NextSeason == EvalSeason

SpecSeason == InitSeason /\ [][NextSeason]_vars

-----------------------------------------------------------------------------
(* fetch_with_retry.  A status code is written as its decimal string.       *)

MaxRetries == 3        \* the retry budget is in 0..MaxRetries

\* status codes of the responses: 200, the five retried ones, and others
Statuses ==
    {"200", "429", "500", "502", "503", "504", "404", "403", "301", "204"}

\* faulty variant: 404 is retried as well
RetriedWith404 == {"429", "500", "502", "503", "504", "404"}

\* res.status_code not in [429, 500, 502, 503, 504]
Retried == {"429", "500", "502", "503", "504"}

\* faulty variant: one retry more than the budget
BudgetSpentLate(attempt, retries) == attempt > retries

\* attempt >= retries
BudgetSpent(attempt, retries) == attempt >= retries

\* delay = base * (2**attempt) + (0.2 * attempt), in milliseconds
BackoffDelay(attempt) == 250 * (2 ^ attempt) + 200 * attempt

InitFetch ==
    /\ fretries \in 0..MaxRetries
    /\ fattempt = 0
    /\ fpc = "idle"
    /\ fseen = <<>>
    /\ frequests = 0
    /\ fslept = <<>>
    /\ NotFetchIdle

\* fetch_with_retry(url, retries, ctx): attempt = 0 and the first client.get
fetch_with_retry ==
    /\ fpc = "idle"
    /\ fattempt' = 0
    /\ frequests' = 1
    /\ fpc' = "get"
    /\ UNCHANGED <<fretries, fseen, fslept, notFetch>>

\* client.get returns a response with the given status: return it, raise, or
\* start the backoff sleep
FetchResponse(status) ==
    /\ fpc = "get"
    /\ fseen' = Append(fseen, status)
    /\ IF status = "200"
       THEN fpc' = "returned" /\ UNCHANGED fslept
       ELSE IF BudgetSpent(fattempt, fretries) \/ status \notin Retried
       THEN fpc' = "raised" /\ UNCHANGED fslept
       ELSE /\ fpc' = "backoff"
            /\ fslept' = Append(fslept, BackoffDelay(fattempt))
    /\ UNCHANGED <<fretries, fattempt, frequests, notFetch>>

\* client.get raises (connection error, timeout): nothing catches it
FetchNetworkError ==
    /\ fpc = "get"
    /\ fseen' = Append(fseen, "error")
    /\ fpc' = "raised"
    /\ UNCHANGED <<fretries, fattempt, frequests, fslept, notFetch>>

\* asyncio.sleep(delay) is over: attempt += 1 and the next client.get
FetchBackoffOver ==
    /\ fpc = "backoff"
    /\ fattempt' = fattempt + 1
    /\ frequests' = frequests + 1
    /\ fpc' = "get"
    /\ UNCHANGED <<fretries, fseen, fslept, notFetch>>

NextFetch ==
    \/ fetch_with_retry
    \/ \E status \in Statuses : FetchResponse(status)
    \/ FetchNetworkError
    \/ FetchBackoffOver

SpecFetch == InitFetch /\ [][NextFetch]_vars

\* every request is answered or fails, and every sleep ends
SpecFetchLive == SpecFetch /\ WF_vars(NextFetch)

-----------------------------------------------------------------------------
(* scrape_handler: the gate, then the batches of fetch_state_page, scrape,  *)
(* dedupe_by_contest_id and chunked_upsert.  A place is an index of states. *)

StaggerMs == 15        \* await sleep(idx * 15)
PolitePauseMs == 100   \* fetch_state_page: await sleep(int(200 * (0.5)))
BatchPauseMs == 150    \* get_batch_pause_ms(): SCRAPE_BATCH_PAUSE_MS or 150

MaxStates == 4         \* states has 0..MaxStates entries
MaxConc == 2           \* concurrency is in 1..MaxConc

Min(a, b) == IF a <= b THEN a ELSE b

\* a list of n state codes
StateList(n) == [k \in 1..n |-> "s" \o PyStr(k)]

\* what scrape() extracts from a fetched page: the contest ids of its records
Pages == {<<>>, <<"c1">>, <<"c1", "c2">>}

\* requests of the API under the right key: forced and unforced
ScrapeRequests ==
    {Request("s3cret", None, "True", None, None),
     Request("s3cret", None, None, None, None)}

\* a Thursday and a Monday at 20:00, New York time
ScrapeInstants ==
    {DatedInstant(2025, 10, 16, 20, 0), DatedInstant(2025, 10, 13, 20, 0)}

\* faulty variant: a batch of one state more than concurrency
BatchWide(i) == (i + 1)..Min(i + xconc + 1, Len(xstates))

\* batch = states[i : i + concurrency], as places
Batch(i) == (i + 1)..Min(i + xconc, Len(xstates))

\* faulty variant: gather propagates the first exception
return_exceptions_off == FALSE

\* asyncio.gather(*tasks, return_exceptions=True)
return_exceptions == TRUE

\* the meta entry of place p
MetaOf(p) ==
    IF xfetch[p] = "failed"
    THEN [state_code |-> xstates[p], kind |-> "error", count |-> 0]
    ELSE [state_code |-> xstates[p], kind |-> "count", count |-> Len(xpage[p])]

\* the records of place p
RowsOf(p) ==
    IF xfetch[p] = "failed" THEN <<>>
    ELSE [k \in 1..Len(xpage[p]) |->
            [state_code |-> xstates[p], contest_id |-> xpage[p][k]]]

\* for state_code, html in zip(batch, results), over the places lo..hi
RECURSIVE CollectMeta(_, _)
CollectMeta(lo, hi) ==
    IF lo > hi THEN <<>> ELSE <<MetaOf(lo)>> \o CollectMeta(lo + 1, hi)

RECURSIVE CollectRows(_, _)
CollectRows(lo, hi) ==
    IF lo > hi THEN <<>> ELSE RowsOf(lo) \o CollectRows(lo + 1, hi)

\* faulty variant: a dropped duplicate makes its contest_id unseen again
RECURSIVE dedupe_from_forgetful(_, _, _)
dedupe_from_forgetful(rows, k, seen) ==
    IF k > Len(rows) THEN <<>>
    ELSE IF ~Truthy(rows[k].contest_id)
    THEN dedupe_from_forgetful(rows, k + 1, seen)
    ELSE IF rows[k].contest_id \in seen
    THEN dedupe_from_forgetful(rows, k + 1, seen \ {rows[k].contest_id})
    ELSE <<rows[k]>>
         \o dedupe_from_forgetful(rows, k + 1,
                                  seen \cup {rows[k].contest_id})

\* dedupe_by_contest_id from row k on, seen being the ids already kept
RECURSIVE dedupe_from(_, _, _)
dedupe_from(rows, k, seen) ==
    IF k > Len(rows) THEN <<>>
    ELSE IF ~Truthy(rows[k].contest_id) \/ rows[k].contest_id \in seen
    THEN dedupe_from(rows, k + 1, seen)
    ELSE <<rows[k]>>
         \o dedupe_from(rows, k + 1, seen \cup {rows[k].contest_id})

\* faulty variant: the last row of a contest_id is kept in place of the first
RECURSIVE dedupe_keep_last(_)
dedupe_keep_last(rows) ==
    IF rows = <<>> THEN <<>>
    ELSE LET r == rows[Len(rows)]
             front == SubSeq(rows, 1, Len(rows) - 1)
             kept == dedupe_keep_last(
                        SelectSeq(front,
                                  LAMBDA q : q.contest_id # r.contest_id))
         IN  IF Truthy(r.contest_id) THEN Append(kept, r) ELSE kept

dedupe_by_contest_id(rows) == dedupe_from(rows, 1, {})

InitScrape ==
    /\ gorigin = "api"
    /\ gcron = None
    /\ greq \in ScrapeRequests
    /\ gsecret = "s3cret"
    /\ gnow \in ScrapeInstants
    /\ gres = None
    /\ \E n \in 0..MaxStates :
          /\ xstates = StateList(n)
          /\ xfetch = [k \in 1..n |-> "none"]
          /\ xpage = [k \in 1..n |-> <<>>]
          /\ xstart = [k \in 1..n |-> NoRun]
    /\ xconc \in 1..MaxConc
    /\ xpc = "idle"
    /\ xi = 0
    /\ xidx = 0
    /\ xmeta = <<>>
    /\ xrows = <<>>
    /\ xresp = NoResponse
    /\ xpauses = 0
    /\ xstore = {}
    /\ xclock = 0
    /\ NotScrapeIdle

\* scrape_handler(request): authentication and gate, then the first batch
scrape_handler ==
    /\ xpc = "idle"
    /\ gres' = scrape_gate(greq, gsecret, gnow)
    /\ IF gres' = "run"
       THEN /\ xpc' = IF Len(xstates) = 0 THEN "respond" ELSE "create"
            /\ xresp' = xresp
       ELSE /\ xpc' = "done"
            /\ xresp' = [status |-> gres', inserted |-> 0, skipped |-> 0]
    /\ xi' = 0
    /\ xidx' = 0
    /\ UNCHANGED <<gorigin, gcron, greq, gsecret, gnow, xstates, xconc, xfetch,
                   xpage, xmeta, xrows, xpauses, xstore, xclock, xstart,
                   notScrape>>

\* await sleep(idx * 15); tasks.append(fetch_state_page(url, ctx)): the
\* coroutine is created and not started
CreateFetch ==
    /\ xpc = "create"
    /\ xidx < Cardinality(Batch(xi))
    /\ xfetch' = [xfetch EXCEPT ![xi + xidx + 1] = "created"]
    /\ xidx' = xidx + 1
    /\ xclock' = xclock + xidx * StaggerMs
    /\ UNCHANGED <<gateVars, xstates, xconc, xpc, xi, xpage, xmeta, xrows,
                   xresp, xpauses, xstore, xstart,
                   notScrape>>

\* await asyncio.gather(*tasks, ...): the fetches of the batch start
Gather ==
    /\ xpc = "create"
    /\ xidx = Cardinality(Batch(xi))
    /\ xfetch' = [p \in DOMAIN xfetch |->
                    IF p \in Batch(xi) THEN "running" ELSE xfetch[p]]
    /\ xpc' = "gather"
    /\ xstart' = [p \in DOMAIN xstart |->
                    IF p \in Batch(xi) THEN xclock ELSE xstart[p]]
    /\ UNCHANGED <<gateVars, xstates, xconc, xi, xidx, xpage, xmeta, xrows,
                   xresp, xpauses, xstore, xclock,
                   notScrape>>

\* fetch_state_page of place p returns the page
FetchSucceeds(p, page) ==
    /\ xfetch[p] = "running"
    /\ xfetch' = [xfetch EXCEPT ![p] = "ok"]
    /\ xpage' = [xpage EXCEPT ![p] = page]
    /\ UNCHANGED <<gateVars, xstates, xconc, xpc, xi, xidx, xmeta, xrows,
                   xresp, xpauses, xstore, xclock, xstart,
                   notScrape>>

\* fetch_state_page of place p raises: gather keeps the exception as the
\* result of p
FetchFails(p) ==
    /\ xfetch[p] = "running"
    /\ xfetch' = [xfetch EXCEPT ![p] = "failed"]
    /\ IF return_exceptions
       THEN UNCHANGED <<xpc, xresp>>
       ELSE /\ xpc' = IF xpc = "gather" THEN "raised" ELSE xpc
            /\ xresp' = IF xpc = "gather"
                        THEN [status |-> "500", inserted |-> 0, skipped |-> 0]
                        ELSE xresp
    /\ UNCHANGED <<gateVars, xstates, xconc, xi, xidx, xpage, xmeta, xrows,
                   xpauses, xstore, xclock, xstart,
                   notScrape>>

\* gather returns: meta and rows of the batch, in the order of the batch
Collect ==
    /\ xpc = "gather"
    /\ \A p \in Batch(xi) : xfetch[p] \in {"ok", "failed"}
    /\ xmeta' = xmeta \o CollectMeta(xi + 1, Min(xi + xconc, Len(xstates)))
    /\ xrows' = xrows \o CollectRows(xi + 1, Min(xi + xconc, Len(xstates)))
    /\ xpc' = IF xi + xconc < Len(xstates) THEN "pause" ELSE "respond"
    /\ xclock' = xclock + PolitePauseMs
    /\ UNCHANGED <<gateVars, xstates, xconc, xi, xidx, xfetch, xpage, xresp,
                   xpauses, xstore, xstart,
                   notScrape>>

\* await sleep(batch_pause_ms) is over: the next i of the range
PauseOver ==
    /\ xpc = "pause"
    /\ xi' = xi + xconc
    /\ xidx' = 0
    /\ xpauses' = xpauses + 1
    /\ xpc' = "create"
    /\ xclock' = xclock + BatchPauseMs
    /\ UNCHANGED <<gateVars, xstates, xconc, xfetch, xpage, xmeta, xrows,
                   xresp, xstore, xstart,
                   notScrape>>

\* if not rows: return ... "inserted": 0
RespondEmpty ==
    /\ xpc = "respond"
    /\ xrows = <<>>
    /\ xresp' = [status |-> "ok", inserted |-> 0, skipped |-> 0]
    /\ xpc' = "done"
    /\ UNCHANGED <<gateVars, xstates, xconc, xi, xidx, xfetch, xpage, xmeta,
                   xrows, xpauses, xstore, xclock, xstart,
                   notScrape>>

\* deduped = dedupe_by_contest_id(rows); chunked_upsert(req_id, deduped, 500),
\* one chunk since the rows are fewer than 500: the store call succeeds and
\* reports the rows, or fails and is skipped
Upsert(store_ok) ==
    /\ xpc = "respond"
    /\ xrows # <<>>
    /\ LET deduped == dedupe_by_contest_id(xrows) IN
       /\ xstore' = IF store_ok
                    THEN xstore \cup {deduped[k].contest_id :
                                        k \in 1..Len(deduped)}
                    ELSE xstore
       /\ xresp' = [status |-> "ok",
                    inserted |-> IF store_ok THEN Len(deduped) ELSE 0,
                    skipped |-> Len(xrows) - Len(deduped)]
    /\ xpc' = "done"
    /\ UNCHANGED <<gateVars, xstates, xconc, xi, xidx, xfetch, xpage, xmeta,
                   xrows, xpauses, xclock, xstart,
                   notScrape>>

NextScrape ==
    \/ scrape_handler
    \/ CreateFetch
    \/ Gather
    \/ \E p \in DOMAIN xfetch : \E page \in Pages : FetchSucceeds(p, page)
    \/ \E p \in DOMAIN xfetch : FetchFails(p)
    \/ Collect
    \/ PauseOver
    \/ RespondEmpty
    \/ \E store_ok \in BOOLEAN : Upsert(store_ok)

SpecScrape == InitScrape /\ [][NextScrape]_vars

-----------------------------------------------------------------------------
(* dedupe_by_contest_id on its own.  A row is its contest_id and the state   *)
(* page it was scraped from; a missing contest_id is None.                  *)

MaxRows == 3           \* rows has 0..MaxRows entries

RECURSIVE SeqsUpTo(_, _)
SeqsUpTo(S, n) ==
    IF n = 0 THEN {<<>>}
    ELSE SeqsUpTo(S, n - 1)
         \cup {Append(q, e) : q \in [1..(n - 1) -> S], e \in S}

\* scraped rows: two of contest c1, one of c2, one with an empty and one
\* with no contest_id
ScrapedRows ==
    {[state_code |-> "s1", contest_id |-> "c1"],
     [state_code |-> "s2", contest_id |-> "c1"],
     [state_code |-> "s1", contest_id |-> "c2"],
     [state_code |-> "s1", contest_id |-> ""],
     [state_code |-> "s1", contest_id |-> None]}

InitDedupe ==
    /\ drows \in SeqsUpTo(ScrapedRows, MaxRows)
    /\ dout = <<>>
    /\ dagain = <<>>
    /\ dpc = 0
    /\ NotDedupeIdle

\* deduped = dedupe_by_contest_id(rows)
Dedupe ==
    /\ dpc = 0
    /\ dout' = dedupe_by_contest_id(drows)
    /\ dpc' = 1
    /\ UNCHANGED <<drows, dagain, notDedupe>>

\* dedupe_by_contest_id(deduped)
DedupeAgain ==
    /\ dpc = 1
    /\ dagain' = dedupe_by_contest_id(dout)
    /\ dpc' = 2
    /\ UNCHANGED <<drows, dout, notDedupe>>

NextDedupe ==
    \/ Dedupe
    \/ DedupeAgain

SpecDedupe == InitDedupe /\ [][NextDedupe]_vars

-----------------------------------------------------------------------------
(* chunked_upsert and the table.  The table is the sequence of its rows in  *)
(* insertion order; a store call either succeeds as a whole or raises and   *)
(* leaves the table as it was.                                              *)

MaxChunk == 2          \* chunk_size is 1..MaxChunk
MaxPasses == 2         \* chunked_upsert is called at most MaxPasses times

\* a record of scrape(): a contest in progress or a final score
Record(contest_id, contest_state) ==
    [state_code |-> "al", contest_id |-> contest_id, sport |-> "FOOTBALL",
     contest_state |-> contest_state,
     team1_score |-> IF contest_state = "boxscore" THEN "21" ELSE "10",
     team2_score |-> IF contest_state = "boxscore" THEN "14" ELSE "7",
     is_live |-> contest_state = "contest-in-progress",
     details |-> IF contest_state = "boxscore" THEN "Final" ELSE "Q2"]

UpsertRecords ==
    {Record(c, st) : c \in {"c1", "c2", "c3"},
                     st \in {"contest-in-progress", "boxscore"}}

\* the row of the table for record r under the generated id
Row(id, r) ==
    [id |-> id, state_code |-> r.state_code, contest_id |-> r.contest_id,
     sport |-> r.sport, contest_state |-> r.contest_state,
     team1_score |-> r.team1_score, team2_score |-> r.team2_score,
     is_live |-> r.is_live, details |-> r.details]

\* deduped = dedupe_by_contest_id(rows), over the lists of scraped records
DedupedRows ==
    {dedupe_by_contest_id(rows) : rows \in SeqsUpTo(UpsertRecords, MaxRows)}

\* faulty variant: a plain insert
insert_row(t, r) == Append(t, Row(Len(t) + 1, r))

\* upsert of one record, on_conflict="contest_id": the row of that
\* contest_id takes the record's columns, or a new row is inserted
upsert_row(t, r) ==
    IF \E k \in 1..Len(t) : t[k].contest_id = r.contest_id
    THEN [k \in 1..Len(t) |->
            IF t[k].contest_id = r.contest_id THEN Row(t[k].id, r) ELSE t[k]]
    ELSE Append(t, Row(Len(t) + 1, r))

\* supabase.table(TABLE).upsert(chunk, on_conflict="contest_id").execute()
RECURSIVE upsert(_, _)
upsert(t, chunk) ==
    IF chunk = <<>> THEN t
    ELSE upsert(upsert_row(t, Head(chunk)), Tail(chunk))

\* faulty variant: a chunk of one row more than chunk_size
ChunkWide(i) == SubSeq(urows, i + 1, Min(i + usize + 1, Len(urows)))

\* chunk = rows[i : i + chunk_size]
Chunk(i) == SubSeq(urows, i + 1, Min(i + usize, Len(urows)))

\* faulty variant: the exception of a store call leaves chunked_upsert
ExceptReraise == "raised"

\* except Exception as e: print(...); continue
ExceptContinue == "chunk"

InitUpsert ==
    /\ table = <<>>
    /\ supabase_env \in BOOLEAN
    /\ urows = <<>>
    /\ usize \in 1..MaxChunk
    /\ ui = 0
    /\ utotal = 0
    /\ upc = "idle"
    /\ ucalls = <<>>
    /\ upass = 0
    /\ uret = 0
    /\ ubefore = <<>>
    /\ NotUpsertIdle

\* deduped = dedupe_by_contest_id(rows); chunked_upsert(req_id, deduped,
\* chunk_size) up to the first store call: get_supabase_client() raises when
\* the settings are missing; no rows, no store call
chunked_upsert ==
    /\ upc \in {"idle", "returned", "raised"}
    /\ upass < MaxPasses
    /\ \E deduped \in DedupedRows :
          /\ urows' = deduped
          /\ upc' = IF ~supabase_env THEN "raised"
                    ELSE IF Len(urows') = 0 THEN "returned"
                    ELSE "chunk"
    /\ ui' = 0
    /\ utotal' = 0
    /\ ucalls' = <<>>
    /\ upass' = upass + 1
    /\ uret' = 0
    /\ ubefore' = table
    /\ UNCHANGED <<table, supabase_env, usize, notUpsert>>

\* one turn of for i in range(0, len(rows), chunk_size): the store call
\* succeeds and reports the rows of the chunk, or raises; return total after
\* the last turn
StoreCall(ok) ==
    /\ upc = "chunk"
    /\ ui < Len(urows)
    /\ ucalls' = Append(ucalls, [chunk |-> Chunk(ui), ok |-> ok])
    /\ table' = IF ok THEN upsert(table, Chunk(ui)) ELSE table
    /\ utotal' = IF ok THEN utotal + Len(Chunk(ui)) ELSE utotal
    /\ ui' = ui + usize
    /\ LET after == IF ok THEN "chunk" ELSE ExceptContinue IN
       /\ upc' = IF after = "chunk" /\ ui' >= Len(urows) THEN "returned"
                 ELSE after
       /\ uret' = IF upc' = "returned" THEN utotal' ELSE uret
    /\ UNCHANGED <<supabase_env, urows, usize, upass, ubefore, notUpsert>>

NextUpsert ==
    \/ chunked_upsert
    \/ \E ok \in BOOLEAN : StoreCall(ok)

SpecUpsert == InitUpsert /\ [][NextUpsert]_vars

-----------------------------------------------------------------------------
(* finalize_handler and finalize_scores.  An answer is a summary, an error  *)
(* body, or an exception ("raised") when finalize_scores is called          *)
(* directly; status is the HTTP status of finalize_handler.                 *)

MaxTable == 3          \* the table has 0..MaxTable rows

Lower == "abcdefghijklmnopqrstuvwxyz"
UpperCase == "ABCDEFGHIJKLMNOPQRSTUVWXYZ"

\* str.upper()
RECURSIVE Upper(_)
Upper(str) ==
    IF str = "" THEN ""
    ELSE LET c == CharAt(str, 1)
             rest == Upper(SubSeq(str, 2, Len(str)))
         IN  IF Contains(Lower, c)
             THEN CharAt(UpperCase, IndexOf(Lower, c)) \o rest
             ELSE c \o rest

\* the kinds of stored rows: state_code, sport, contest_state and scores
RowKinds ==
    {<<"al", "FOOTBALL", "contest-in-progress", None, None>>,
     <<"al", "FOOTBALL", "contest-in-progress", "10", "7">>,
     <<"al", "FOOTBALL", "boxscore", "21", "14">>,
     <<"ga", "FOOTBALL", "contest-in-progress", "0", None>>,
     <<"al", "FOOTBALL", "needs-verification", "10", "7">>,
     <<"al", "VOLLEYBALL", "contest-in-progress", None, None>>,
     <<"al", "FOOTBALL", "pregame", None, None>>}

\* the stored row of kind k under id
StoredRow(id, k) ==
    [id |-> id, state_code |-> k[1], contest_id |-> "c" \o PyStr(id),
     sport |-> k[2], contest_state |-> k[3],
     team1_score |-> k[4], team2_score |-> k[5],
     is_live |-> k[3] = "contest-in-progress",
     details |-> IF k[3] = "contest-in-progress" THEN "Q2" ELSE None]

\* the tables of up to MaxTable rows, ids 1, 2, ...
Tables ==
    {[id \in 1..Len(ks) |-> StoredRow(id, ks[id])] :
        ks \in SeqsUpTo(RowKinds, MaxTable)}

\* the calls: POST /finalize with and without its key, and finalize_scores
\* called with its arguments as they are
FinalizeCalls ==
    {[entry |-> "handler", key |-> "s3cret", states |-> st,
      sport |-> "football"] : st \in {<<>>, <<"al">>, <<"al", "ga">>}}
    \cup {[entry |-> "handler", key |-> None, states |-> <<"al">>,
           sport |-> "football"]}
    \cup {[entry |-> "direct", key |-> None, states |-> st, sport |-> sp] :
             st \in {<<>>, <<"al">>, <<"al", "ga">>},
             sp \in {"", "FOOTBALL"}}

\* faulty variant: rows in boxscore are returned as well
Selected_with_boxscore(r, states, sport) ==
    /\ InSeq(r.state_code, states)
    /\ r.sport = Upper(sport)
    /\ r.contest_state # "pregame"

\* .in_("state_code", states).eq("sport", sport.upper())
\* .neq("contest_state", "boxscore").neq("contest_state", "pregame")
Selected(r, states, sport) ==
    /\ InSeq(r.state_code, states)
    /\ r.sport = Upper(sport)
    /\ r.contest_state # "boxscore"
    /\ r.contest_state # "pregame"

\* the rows of the select, in table order
Select(t, states, sport) ==
    SelectSeq(t, LAMBDA r : Selected(r, states, sport))

\* faulty variant: a score of 0 counts as absent
new_state_falsy(row) ==
    IF row.team1_score \in {None, "0"} /\ row.team2_score \in {None, "0"}
    THEN "score-not-reported"
    ELSE "needs-verification"

\* new_state of a row in contest-in-progress
new_state(row) ==
    IF row.team1_score = None /\ row.team2_score = None
    THEN "score-not-reported"
    ELSE "needs-verification"

\* faulty variant: every returned row is updated, whatever its state
RECURSIVE UpdatesFromEvery(_, _)
UpdatesFromEvery(rows, k) ==
    IF k > Len(rows) THEN <<>>
    ELSE <<[id |-> rows[k].id, contest_state |-> new_state(rows[k]),
            is_live |-> FALSE, details |-> "Final"]>>
         \o UpdatesFromEvery(rows, k + 1)

\* the updates built from rows k.. of the select
RECURSIVE UpdatesFrom(_, _)
UpdatesFrom(rows, k) ==
    IF k > Len(rows) THEN <<>>
    ELSE IF rows[k].contest_state = "contest-in-progress"
    THEN <<[id |-> rows[k].id, contest_state |-> new_state(rows[k]),
            is_live |-> FALSE, details |-> "Final"]>>
         \o UpdatesFrom(rows, k + 1)
    ELSE UpdatesFrom(rows, k + 1)

\* number of updates in contest_state st
CountState(updates, st) ==
    Cardinality({k \in 1..Len(updates) : updates[k].contest_state = st})

\* upsert(updates, on_conflict="id"): the row of the id takes the columns of
\* the update
apply_update(t, u) ==
    [k \in 1..Len(t) |->
        IF t[k].id = u.id
        THEN [t[k] EXCEPT !.contest_state = u.contest_state,
                          !.is_live = u.is_live, !.details = u.details]
        ELSE t[k]]

RECURSIVE apply_updates(_, _)
apply_updates(t, updates) ==
    IF updates = <<>> THEN t
    ELSE apply_updates(apply_update(t, Head(updates)), Tail(updates))

\* an exception with message msg leaves finalize_scores: finalize_handler
\* answers 500 with the message
Raised(msg) ==
    [NoAnswer EXCEPT !.kind = IF zentry = "handler" THEN "error" ELSE "raised",
                     !.status = IF zentry = "handler" THEN "500" ELSE None,
                     !.error = msg]

\* finalize_scores returns {"error": msg}
ErrorBody(msg) ==
    [NoAnswer EXCEPT !.kind = "error",
                     !.status = IF zentry = "handler" THEN "200" ELSE None,
                     !.error = msg]

\* finalize_scores returns the summary
Summary(n, verify, missing, updated) ==
    [NoAnswer EXCEPT !.kind = "summary",
                     !.status = IF zentry = "handler" THEN "200" ELSE None,
                     !.rows = n, !.rowsNeedingVerification = verify,
                     !.rowsMissingScore = missing,
                     !.rowsSuccessfullyUpdated = updated]

\* faulty variant: the failed upsert is skipped and the summary returned
UpdateErrorSkipped == Summary(Len(zrows), zverify, zmissing, 0)

\* except Exception as e: raise Exception(f"Database update error: {e}")
UpdateError == Raised("Database update error")

InitFinalize ==
    /\ table \in Tables
    /\ supabase_env \in BOOLEAN
    /\ \E c \in FinalizeCalls :
          /\ zentry = c.entry
          /\ zkey = c.key
          /\ zstates = c.states
          /\ zsport = c.sport
    /\ zpc = "idle"
    /\ zrows = <<>>
    /\ zupdates = <<>>
    /\ zmissing = 0
    /\ zverify = 0
    /\ zresp = NoAnswer
    /\ zaccess = <<>>
    /\ zbefore = <<>>
    /\ NotFinalizeIdle

\* finalize_scores(states, sport) up to the select: the client is created,
\* then the arguments are tested
finalize_scores(states, sport) ==
    /\ zaccess' = <<"client">>
    /\ IF ~supabase_env
       THEN /\ zresp' = Raised("supabase_url is required")
            /\ zpc' = "done"
       ELSE IF states = <<>> \/ sport = ""
       THEN /\ zresp' = ErrorBody("states and sport required")
            /\ zpc' = "done"
       ELSE /\ zresp' = zresp
            /\ zpc' = "select"

\* POST /finalize: validate_api_key, the parameters, then finalize_scores
finalize_handler ==
    /\ zpc = "idle"
    /\ zentry = "handler"
    /\ zbefore' = table
    /\ zsport' = Upper(zsport)
    /\ IF validate_api_key("s3cret", zkey) # "ok"
       THEN /\ zresp' = [NoAnswer EXCEPT
                           !.kind = "error",
                           !.status = validate_api_key("s3cret", zkey),
                           !.error = "Authentication required"]
            /\ zpc' = "done"
            /\ zaccess' = zaccess
       ELSE IF zstates = <<>> \/ zsport' = ""
       THEN /\ zresp' = [NoAnswer EXCEPT
                           !.kind = "error", !.status = "400",
                           !.error = "states and sport required"]
            /\ zpc' = "done"
            /\ zaccess' = zaccess
       ELSE finalize_scores(zstates, zsport')
    /\ UNCHANGED <<tableVars, zentry, zkey, zstates, zrows, zupdates,
                   zmissing, zverify, notFinalize>>

\* finalize_scores called by other code of the process
FinalizeDirect ==
    /\ zpc = "idle"
    /\ zentry = "direct"
    /\ zbefore' = table
    /\ finalize_scores(zstates, zsport)
    /\ UNCHANGED <<tableVars, zentry, zkey, zstates, zsport, zrows, zupdates,
                   zmissing, zverify, notFinalize>>

\* the select returns: no rows, the zero summary; no updates, the summary;
\* otherwise the upsert is next
SelectReturns ==
    /\ zpc = "select"
    /\ zaccess' = Append(zaccess, "select")
    /\ zrows' = Select(table, zstates, zsport)
    /\ zupdates' = UpdatesFrom(zrows', 1)
    /\ zmissing' = CountState(zupdates', "score-not-reported")
    /\ zverify' = CountState(zupdates', "needs-verification")
    /\ IF zrows' = <<>>
       THEN /\ zresp' = Summary(0, 0, 0, 0)
            /\ zpc' = "done"
       ELSE IF zupdates' = <<>>
       THEN /\ zresp' = Summary(Len(zrows'), zverify', zmissing', 0)
            /\ zpc' = "done"
       ELSE /\ zresp' = zresp
            /\ zpc' = "upsert"
    /\ UNCHANGED <<tableVars, zentry, zkey, zstates, zsport, zbefore,
                   notFinalize>>

\* the select raises: raise Exception(f"Database fetch error: {e}")
SelectFails ==
    /\ zpc = "select"
    /\ zaccess' = Append(zaccess, "select")
    /\ zresp' = Raised("Database fetch error")
    /\ zpc' = "done"
    /\ UNCHANGED <<tableVars, zentry, zkey, zstates, zsport, zrows, zupdates,
                   zmissing, zverify, zbefore, notFinalize>>

\* the upsert of the updates returns the rows it wrote
UpsertReturns ==
    /\ zpc = "upsert"
    /\ zaccess' = Append(zaccess, "upsert")
    /\ table' = apply_updates(table, zupdates)
    /\ zresp' = Summary(Len(zrows), zverify, zmissing, Len(zupdates))
    /\ zpc' = "done"
    /\ UNCHANGED <<supabase_env, zentry, zkey, zstates, zsport, zrows,
                   zupdates, zmissing, zverify, zbefore, notFinalize>>

\* the upsert raises
UpsertFails ==
    /\ zpc = "upsert"
    /\ zaccess' = Append(zaccess, "upsert failed")
    /\ zresp' = UpdateError
    /\ zpc' = "done"
    /\ UNCHANGED <<tableVars, zentry, zkey, zstates, zsport, zrows, zupdates,
                   zmissing, zverify, zbefore, notFinalize>>

NextFinalize ==
    \/ finalize_handler
    \/ FinalizeDirect
    \/ SelectReturns
    \/ SelectFails
    \/ UpsertReturns
    \/ UpsertFails

SpecFinalize == InitFinalize /\ [][NextFinalize]_vars

-----------------------------------------------------------------------------
(* scrape(html, page_url, state_code, sport).  The page is the sequence of *)
(* its containers; a container is the data-contest-id of its li and its     *)
(* ul.teams > li entries, an entry being the text of its .name element or   *)
(* None when it has no such element.                                        *)

MaxBoxes == 2          \* the page has 0..MaxBoxes containers

\* s.endswith(suffix)
EndsWith(s, suffix) ==
    /\ Len(s) >= Len(suffix)
    /\ SubSeq(s, Len(s) - Len(suffix) + 1, Len(s)) = suffix

\* str.lower()
RECURSIVE LowerOf(_)
LowerOf(str) ==
    IF str = "" THEN ""
    ELSE LET c == CharAt(str, 1)
             rest == LowerOf(SubSeq(str, 2, Len(str)))
         IN  IF Contains(UpperCase, c)
             THEN CharAt(Lower, IndexOf(UpperCase, c)) \o rest
             ELSE c \o rest

GENDER_REQUIRED_SPORTS == {<<"basketball", "girls">>, <<"volleyball", "boys">>}

\* parse_compound_sport(sport): (base_sport, gender)
parse_compound_sport(sport) ==
    LET sport_lower == LowerOf(sport) IN
    IF EndsWith(sport_lower, "-girls")
    THEN LET base_sport == SubSeq(sport_lower, 1, Len(sport_lower) - 6) IN
         IF <<base_sport, "girls">> \in GENDER_REQUIRED_SPORTS
         THEN <<base_sport, "girls">> ELSE <<base_sport, None>>
    ELSE IF EndsWith(sport_lower, "-boys")
    THEN LET base_sport == SubSeq(sport_lower, 1, Len(sport_lower) - 5) IN
         IF <<base_sport, "boys">> \in GENDER_REQUIRED_SPORTS
         THEN <<base_sport, "boys">> ELSE <<base_sport, None>>
    ELSE <<sport_lower, None>>

\* gender = "Female" if gender_suffix == "girls" else "Male"
Gender(sport) ==
    IF parse_compound_sport(sport)[2] = "girls" THEN "Female" ELSE "Male"

\* the entries of ul.teams > li
TeamLists ==
    {<<>>, <<"A">>, <<None>>, <<"A", "B">>, <<"A", None>>, <<"A", "B", "C">>}

Boxes ==
    {[contest_id |-> c, teams |-> t] :
        c \in {None, "", "c1", "c2"}, t \in TeamLists}

SportNames ==
    {b \o g : b \in {"football", "basketball", "volleyball"},
              g \in {"", "-boys", "-girls"}}
    \cup {"Volleyball-Girls"}

\* if len(teams) >= 2
EnoughTeams(teams) == Len(teams) >= 2

\* the record of a container
GameRecord(box, sport) ==
    [state_code |-> "al", contest_id |-> box.contest_id,
     team1_name |-> box.teams[1],
     team2_name |-> IF Len(box.teams) >= 2 THEN box.teams[2] ELSE None,
     sport |-> Upper(parse_compound_sport(sport)[1]),
     gender |-> Gender(sport)]

\* for box in boxes, from container k on; acc is out.  A team entry without
\* a .name element makes t.select_one(".name").get_text raise AttributeError
RECURSIVE scrape_from(_, _, _, _)
scrape_from(boxes, k, sport, acc) ==
    IF k > Len(boxes) THEN [raised |-> FALSE, out |-> acc]
    ELSE IF ~Truthy(boxes[k].contest_id)
    THEN scrape_from(boxes, k + 1, sport, acc)
    ELSE IF \E i \in 1..Len(boxes[k].teams) : boxes[k].teams[i] = None
    THEN [raised |-> TRUE, out |-> <<>>]
    ELSE IF EnoughTeams(boxes[k].teams)
    THEN scrape_from(boxes, k + 1, sport,
                     Append(acc, GameRecord(boxes[k], sport)))
    ELSE scrape_from(boxes, k + 1, sport, acc)

InitExtract ==
    /\ ehtml \in SeqsUpTo(Boxes, MaxBoxes)
    /\ esport \in SportNames
    /\ eout = <<>>
    /\ epc = "idle"
    /\ NotExtractIdle

\* scrape(html, page_url, state_code, sport) returns its records
ScrapeReturns ==
    /\ epc = "idle"
    /\ ~scrape_from(ehtml, 1, esport, <<>>).raised
    /\ eout' = scrape_from(ehtml, 1, esport, <<>>).out
    /\ epc' = "returned"
    /\ UNCHANGED <<ehtml, esport, notExtract>>

\* scrape(html, page_url, state_code, sport) raises
ScrapeRaises ==
    /\ epc = "idle"
    /\ scrape_from(ehtml, 1, esport, <<>>).raised
    /\ eout' = <<>>
    /\ epc' = "raised"
    /\ UNCHANGED <<ehtml, esport, notExtract>>

NextExtract ==
    \/ ScrapeReturns
    \/ ScrapeRaises

SpecExtract == InitExtract /\ [][NextExtract]_vars

-----------------------------------------------------------------------------
(* The static schedule tables of config/timezone_schedules.py, evaluated by *)
(* AdvancedCronScheduler._matches_cron against UTC.                         *)

Entry(name, cron) == [name |-> name, cron |-> cron]

TimezoneNames ==
    <<"eastern", "central", "mountain", "pacific", "alaska", "hawaii">>

FOOTBALL_SCRAPE_SCHEDULES ==
    [eastern |-> <<Entry("football_scrape_eastern_1", "*/3 21-23 * * 3,4,5"),
                   Entry("football_scrape_eastern_2", "0-30/3 0-3 * * 4,5,6")>>,
     central |-> <<Entry("football_scrape_central_1", "*/3 22-23 * * 3,4,5"),
                   Entry("football_scrape_central_2", "0-30/3 0-4 * * 4,5,6")>>,
     mountain |-> <<Entry("football_scrape_mountain_1", "*/3 23 * * 3,4,5"),
                    Entry("football_scrape_mountain_2",
                          "0-30/3 0-5 * * 4,5,6")>>,
     pacific |-> <<Entry("football_scrape_pacific_1", "0-30/3 0-6 * * 4,5,6")>>,
     alaska |-> <<Entry("football_scrape_alaska_1", "0-30/3 1-7 * * 4,5,6")>>,
     hawaii |-> <<Entry("football_scrape_hawaii_1", "0-30/3 3-9 * * 4,5,6")>>]

FOOTBALL_FINALIZE_SCHEDULES ==
    [eastern |-> Entry("football_finalize_eastern", "30 4 * * 5,6,0"),
     central |-> Entry("football_finalize_central", "30 5 * * 5,6,0"),
     mountain |-> Entry("football_finalize_mountain", "30 6 * * 5,6,0"),
     pacific |-> Entry("football_finalize_pacific", "30 7 * * 5,6,0"),
     alaska |-> Entry("football_finalize_alaska", "30 8 * * 5,6,0"),
     hawaii |-> Entry("football_finalize_hawaii", "30 10 * * 5,6,0")]

VOLLEYBALL_GIRLS_SCRAPE_SCHEDULES ==
    [eastern |-> <<Entry("volleyball_girls_scrape_eastern_1",
                         "*/15 19-23 * * *"),
                   Entry("volleyball_girls_scrape_eastern_2",
                         "*/15 0-3 * * *")>>,
     central |-> <<Entry("volleyball_girls_scrape_central_1",
                         "*/15 20-23 * * *"),
                   Entry("volleyball_girls_scrape_central_2",
                         "*/15 0-4 * * *")>>,
     mountain |-> <<Entry("volleyball_girls_scrape_mountain_1",
                          "*/15 21-23 * * *"),
                    Entry("volleyball_girls_scrape_mountain_2",
                          "*/15 0-5 * * *")>>,
     pacific |-> <<Entry("volleyball_girls_scrape_pacific_1",
                         "*/15 22-23 * * *"),
                   Entry("volleyball_girls_scrape_pacific_2",
                         "*/15 0-6 * * *")>>,
     alaska |-> <<Entry("volleyball_girls_scrape_alaska_1", "*/15 23 * * *"),
                  Entry("volleyball_girls_scrape_alaska_2",
                        "*/15 0-7 * * *")>>,
     hawaii |-> <<Entry("volleyball_girls_scrape_hawaii_1",
                        "*/15 1-9 * * *")>>]

VOLLEYBALL_GIRLS_FINALIZE_SCHEDULES ==
    [eastern |-> Entry("volleyball_girls_finalize_eastern",
                       "30 3 * * 0,1,2,3,4,5,6"),
     central |-> Entry("volleyball_girls_finalize_central",
                       "30 3 * * 0,1,2,3,4,5,6"),
     mountain |-> Entry("volleyball_girls_finalize_mountain",
                        "30 4 * * 0,1,2,3,4,5,6"),
     pacific |-> Entry("volleyball_girls_finalize_pacific",
                       "30 5 * * 0,1,2,3,4,5,6"),
     alaska |-> Entry("volleyball_girls_finalize_alaska",
                      "30 6 * * 0,1,2,3,4,5,6"),
     hawaii |-> Entry("volleyball_girls_finalize_hawaii",
                      "30 8 * * 0,1,2,3,4,5,6")]

\* the scrape entries of a sport and a timezone
ScrapeEntries(sport, tz) ==
    IF sport = "football" THEN FOOTBALL_SCRAPE_SCHEDULES[tz]
    ELSE VOLLEYBALL_GIRLS_SCRAPE_SCHEDULES[tz]

\* the finalize entry of a sport and a timezone
FinalizeEntry(sport, tz) ==
    IF sport = "football" THEN FOOTBALL_FINALIZE_SCHEDULES[tz]
    ELSE VOLLEYBALL_GIRLS_FINALIZE_SCHEDULES[tz]

\* the minutes a tick of the tables can match: multiples of 3 and of 5
TableMinutes == {m \in 0..59 : m % 3 = 0 \/ m % 5 = 0}

\* the week of Monday 2025-10-13, UTC
TableInstants ==
    {DatedInstant(2025, 10, d, h, m) :
        d \in 13..19, h \in 0..23, m \in TableMinutes}

InitTables ==
    /\ tsport \in {"football", "volleyball-girls"}
    /\ ttz \in {TimezoneNames[k] : k \in 1..Len(TimezoneNames)}
    /\ tnow \in TableInstants
    /\ tscrape = {}
    /\ tfinalize = FALSE
    /\ tpc = "idle"
    /\ NotTimetableIdle

\* one pass of for task in self.tasks over the entries of the sport and the
\* timezone: the entries _matches_cron lets run
EvalTables ==
    /\ tpc = "idle"
    /\ tscrape' = {ScrapeEntries(tsport, ttz)[k].name :
                     k \in {i \in 1..Len(ScrapeEntries(tsport, ttz)) :
                              matches_cron(ScrapeEntries(tsport, ttz)[i].cron,
                                           tnow) = "true"}}
    /\ tfinalize' = (matches_cron(FinalizeEntry(tsport, ttz).cron, tnow)
                        = "true")
    /\ tpc' = "done"
    /\ UNCHANGED <<tsport, ttz, tnow, notTimetable>>

NextTables == EvalTables

SpecTables == InitTables /\ [][NextTables]_vars

-----------------------------------------------------------------------------
(* AdvancedCronScheduler.setup_football_schedules and the tasks it          *)
(* registers.  A registered function is written as the values its default   *)
(* arguments were given when the def statement ran.                         *)

MaxFires == 2          \* entries fired after the setup

\* TIMEZONE_MAPPINGS[tz]["states"]
TIMEZONE_MAPPINGS ==
    [eastern |-> <<"ct", "de", "dc", "fl", "ga", "me", "md", "ma", "nh", "nj",
                   "ny", "nc", "oh", "pa", "ri", "sc", "vt", "va", "wv">>,
     central |-> <<"al", "ar", "fl", "ia", "il", "in", "ky", "la", "mi", "mn",
                   "ms", "mo", "tn", "tx", "wi">>,
     mountain |-> <<"az", "co", "id", "ks", "mt", "ne", "nm", "nd", "ok", "sd",
                    "ut", "wy">>,
     pacific |-> <<"ca", "nv", "or", "wa">>,
     alaska |-> <<"ak">>,
     hawaii |-> <<"hi">>]

\* TIMEZONE_MAPPINGS.get(timezone_name, {}).get("states", [])
get_states_for_timezone(tz) ==
    IF tz \in DOMAIN TIMEZONE_MAPPINGS THEN TIMEZONE_MAPPINGS[tz] ELSE <<>>

\* what a fired entry ran: the handler it called, with states and sport
Run(action, states, sport) ==
    [action |-> action, states |-> states, sport |-> sport]

\* manual_timezone_scrape(timezone_name, sport)
manual_timezone_scrape(tz, sport) ==
    LET states == get_states_for_timezone(tz) IN
    IF states = <<>> THEN Run("ValueError", <<>>, sport)
    ELSE Run("scrape", states, sport)

\* manual_timezone_finalize(timezone_name, sport)
manual_timezone_finalize(tz, sport) ==
    LET states == get_states_for_timezone(tz) IN
    IF states = <<>> THEN Run("ValueError", <<>>, sport)
    ELSE Run("finalize", states, sport)

\* async def create_scrape_task(tz_name=timezone_name, sport="football") and
\* create_finalize_task, as self.schedule stores them
Task(entry, action, tz_name, sport) ==
    [cron |-> entry.cron, name |-> entry.name, action |-> action,
     tz_name |-> tz_name, sport |-> sport]

\* faulty variant: the function reads the loop variable when it is called
TzNameLate(task) == timezone_name

\* tz_name when the function is called without arguments: the default,
\* evaluated when the def statement ran
TzName(task) == task.tz_name

InitSetup ==
    /\ wpc = "new"
    /\ wk = 0
    /\ timezone_name = None
    /\ wtasks = <<>>
    /\ wruns = <<>>
    /\ NotSetupIdle

\* setup_football_schedules(): the first for statement is entered
setup_football_schedules ==
    /\ wpc = "new"
    /\ wpc' = "scrape"
    /\ wk' = 1
    /\ UNCHANGED <<timezone_name, wtasks, wruns, notSetup>>

\* for timezone_name, schedules in FOOTBALL_SCRAPE_SCHEDULES.items(): one
\* iteration, with its inner loop over schedules
ScrapeIteration ==
    /\ wpc = "scrape"
    /\ wk <= Len(TimezoneNames)
    /\ timezone_name' = TimezoneNames[wk]
    /\ LET schedules == FOOTBALL_SCRAPE_SCHEDULES[timezone_name'] IN
       wtasks' =
          IF get_states_for_timezone(timezone_name') = <<>> THEN wtasks
          ELSE wtasks \o [k \in 1..Len(schedules) |->
                            Task(schedules[k], "scrape", timezone_name',
                                 "football")]
    /\ wk' = wk + 1
    /\ UNCHANGED <<wpc, wruns, notSetup>>

\* the first loop is over: the second for statement is entered
ScrapeLoopOver ==
    /\ wpc = "scrape"
    /\ wk > Len(TimezoneNames)
    /\ wpc' = "finalize"
    /\ wk' = 1
    /\ UNCHANGED <<timezone_name, wtasks, wruns, notSetup>>

\* for timezone_name, schedule_config in FOOTBALL_FINALIZE_SCHEDULES.items()
FinalizeIteration ==
    /\ wpc = "finalize"
    /\ wk <= Len(TimezoneNames)
    /\ timezone_name' = TimezoneNames[wk]
    /\ wtasks' =
          IF get_states_for_timezone(timezone_name') = <<>> THEN wtasks
          ELSE Append(wtasks,
                      Task(FOOTBALL_FINALIZE_SCHEDULES[timezone_name'],
                           "finalize", timezone_name', "football"))
    /\ wk' = wk + 1
    /\ UNCHANGED <<wpc, wruns, notSetup>>

\* the second loop is over: setup_football_schedules returns
FinalizeLoopOver ==
    /\ wpc = "finalize"
    /\ wk > Len(TimezoneNames)
    /\ wpc' = "done"
    /\ UNCHANGED <<wk, timezone_name, wtasks, wruns, notSetup>>

\* start(): await task["function"]() of entry i, called without arguments
Fire(i) ==
    /\ wpc = "done"
    /\ Len(wruns) < MaxFires
    /\ wruns' = Append(wruns,
          [name |-> wtasks[i].name,
           ran |-> IF wtasks[i].action = "scrape"
                   THEN manual_timezone_scrape(TzName(wtasks[i]),
                                               wtasks[i].sport)
                   ELSE manual_timezone_finalize(TzName(wtasks[i]),
                                                 wtasks[i].sport)])
    /\ UNCHANGED <<wpc, wk, timezone_name, wtasks, notSetup>>

NextSetup ==
    \/ setup_football_schedules
    \/ ScrapeIteration
    \/ ScrapeLoopOver
    \/ FinalizeIteration
    \/ FinalizeLoopOver
    \/ \E i \in 1..Len(wtasks) : Fire(i)

SpecSetup == InitSetup /\ [][NextSetup]_vars

-----------------------------------------------------------------------------
(* Scrape passes and finalize passes on the same table.  A pass is one call *)
(* of scrape_handler (dedupe_by_contest_id, then chunked_upsert with its    *)
(* default chunk size) or of finalize_scores, from its first store access   *)
(* to its return.                                                           *)

MaxHist == 4           \* passes made on the table

\* the contests of the pages
PassContests == {"c1", "c2"}

\* what scrape() reads for a contest: in progress with or without scores,
\* or final
PageRecords ==
    {r \in UpsertRecords : r.contest_id \in PassContests}
    \cup {[Record(c, "contest-in-progress") EXCEPT !.team1_score = None,
                                                  !.team2_score = None] :
             c \in PassContests}

\* deduped = dedupe_by_contest_id(rows) of a scrape pass: a page without
\* contests, or with one
ScrapedPages == {<<>>} \cup {<<r>> : r \in PageRecords}

InitPasses ==
    /\ table = <<>>
    /\ supabase_env = TRUE
    /\ pstates \in {<<"al">>, <<"al", "ga">>}
    /\ psport = "football"
    /\ phist = <<>>
    /\ pprev = <<>>
    /\ pupdates = <<>>
    /\ pupserts = 0
    /\ pfinal = {}
    /\ NotPassesIdle

\* scrape_handler from dedupe on: chunked_upsert(req_id, deduped) makes one
\* store call for a non-empty list; ok tells whether the call returns
ScrapePass(deduped, ok) ==
    /\ Len(phist) < MaxHist
    /\ table' = IF ok THEN upsert(table, deduped) ELSE table
    /\ pupserts' = IF deduped = <<>> THEN 0 ELSE 1
    /\ pupdates' = <<>>
    /\ pprev' = table
    /\ phist' = Append(phist, "scrape")
    /\ UNCHANGED <<supabase_env, pstates, psport, pfinal, notPasses>>

\* finalize_scores(states, sport) returns its summary
FinalizePass ==
    /\ Len(phist) < MaxHist
    /\ LET rows == Select(table, pstates, psport)
           updates == UpdatesFrom(rows, 1)
       IN
       /\ table' = apply_updates(table, updates)
       /\ pupdates' = updates
       /\ pupserts' = IF updates = <<>> THEN 0 ELSE 1
       /\ pfinal' = pfinal \cup {updates[k].id : k \in 1..Len(updates)}
    /\ pprev' = table
    /\ phist' = Append(phist, "finalize")
    /\ UNCHANGED <<supabase_env, pstates, psport, notPasses>>

\* finalize_scores(states, sport) raises: at the select, or at the upsert of
\* its updates
FinalizePassFails(at) ==
    /\ Len(phist) < MaxHist
    /\ LET rows == Select(table, pstates, psport)
           updates == UpdatesFrom(rows, 1)
       IN
       IF at = "select"
       THEN pupdates' = <<>> /\ pupserts' = 0
       ELSE updates # <<>> /\ pupdates' = updates /\ pupserts' = 1
    /\ pprev' = table
    /\ phist' = Append(phist, "finalize failed")
    /\ UNCHANGED <<tableVars, pstates, psport, pfinal, notPasses>>

NextPasses ==
    \/ \E deduped \in ScrapedPages, ok \in BOOLEAN : ScrapePass(deduped, ok)
    \/ FinalizePass
    \/ \E at \in {"select", "upsert"} : FinalizePassFails(at)

SpecPasses == InitPasses /\ [][NextPasses]_vars

-----------------------------------------------------------------------------
(* Properties of the scheduler loop, checked under Spec *)

\* the step calls the task of entry i
Started(i) == call[i].state # "running" /\ call'[i].state = "running"

\* C1: an entry whose task raised at a tick sampled in minute m is not invoked
\* again at a later tick sampled in the same minute m.
C1_NoRetryInSameMinute ==
    [][\A i \in Entries :
         (call[i].state = "raised" /\ Started(i))
            => call'[i].minute # call[i].minute]_vars

\* C2: a task that raises an Exception does not end the loop: start() goes on
\* with the next entry of the tick, and start() is only ever left after stop()
\* or the shutdown has been requested.
C2_TaskErrorContained ==
    /\ [][\A i \in Entries :
            (call[i].state = "running" /\ call'[i].state = "raised")
               => (pc' = "for" /\ idx' = i + 1 /\ running' = running)]_vars
    /\ [](pc \in {"exited", "failed"} => (~running /\ stop_pc # None))

\* C2 witness: a task has raised in an earlier minute and the loop is in a
\* later tick, evaluating its entries.
C2_Witness ==
    \E i \in Entries :
        /\ call[i].state = "raised"
        /\ pc = "for"
        /\ running
        /\ MinuteOf(current_time) > call[i].minute

\* C3: once stop() has been called, no task is invoked any more.
C3_NoInvocationAfterStop ==
    [][\A i \in Entries : Started(i) => running]_vars

\* C4: an entry whose task returned normally at a tick sampled in minute m has
\* last_run = m and is not invoked again at a tick sampled in minute m.
C4_OncePerMinute ==
    /\ [][\A i \in Entries :
            (call[i].state = "ok" /\ Started(i))
               => call'[i].minute # call[i].minute]_vars
    /\ [](\A i \in Entries :
            call[i].state = "ok" => tasks[i].last_run = call[i].minute)

\* C4 witness: a later tick of the same minute stands at an entry whose task
\* has returned normally in that minute.
C4_Witness ==
    /\ pc = "for"
    /\ idx \in Entries
    /\ call[idx].state = "ok"
    /\ call[idx].minute = MinuteOf(current_time)
    /\ tasks[idx].last_run = MinuteOf(current_time)

\* the entry's cron expression matches the wall-clock minute m
MatchesMinute(i, m) ==
    matches_cron(tasks[i].cron, TimeAt(m * MinuteSeconds)) = "true"

\* C5: the polling interval is below 60 seconds, and while the loop runs and
\* no invocation has taken time, every entry has been invoked in every past
\* wall-clock minute that its cron expression matches.
C5_NoMinuteMissed ==
    /\ SleepSeconds < MinuteSeconds
    /\ (running /\ ~slow) =>
          \A m \in MinuteOf(boot)..(MinuteOf(clock) - 1) :
              \A i \in Entries : MatchesMinute(i, m) => <<i, m>> \in fired

\* C5 witness: two whole minutes have passed with instantaneous tasks, and an
\* entry was invoked in the second of them.
C5_Witness ==
    /\ running
    /\ ~slow
    /\ MinuteOf(clock) >= MinuteOf(boot) + 2
    /\ \E i \in Entries : <<i, MinuteOf(boot) + 1>> \in fired

\* C6: at most one task is in progress, and while a task is in progress
\* start() is suspended in the call of that entry.
C6_OneTaskAtATime ==
    /\ Cardinality({i \in Entries : call[i].state = "running"}) <= 1
    /\ \A i \in Entries : call[i].state = "running" => Suspended(i)

\* C6 witness: the second entry is in progress after the first entry's task
\* of the same tick is over.
C6_Witness ==
    /\ Len(tasks) >= 2
    /\ call[1].state \in {"ok", "raised"}
    /\ call[2].state = "running"
    /\ call[1].minute = call[2].minute

\* C7: once stop() has been called during the inter-tick sleep, the loop does
\* not stay in that sleep.
C7_StopEndsSleep ==
    [][(stop_pc = "sleeping" /\ pc = "sleeping") => pc' # "sleeping"]_vars

-----------------------------------------------------------------------------
(* Properties of the matcher, checked under SpecCron and SpecField *)

UInt(s) == AllDigits(s)

\* the text is a range a-b of two unsigned integers
IsRange(s) ==
    LET p == Split(s, "-") IN Len(p) = 2 /\ UInt(p[1]) /\ UInt(p[2])

\* a field the matcher cannot parse: a step that is missing, not a number or
\* zero, a step base or range bound that is not a number, a range mixed with a
\* list
Unparsable(f) ==
    /\ f # "*"
    /\ \/ /\ Contains(f, "/")
          /\ LET p == Split(f, "/") IN
             \/ Len(p) # 2
             \/ ~IsInt(p[2])
             \/ PyInt(p[2]) = 0
             \/ ~(p[1] = "*" \/ UInt(p[1]) \/ IsRange(p[1]))
       \/ /\ ~Contains(f, "/")
          /\ Contains(f, "-")
          /\ ~IsRange(f)

\* C8: _matches_cron returns a boolean and never raises; it returns False for
\* an expression that does not have five fields or that has a field that
\* cannot be parsed; the scheduler's state is as it was.
C8_MatcherNeverThrows ==
    cres # None =>
        /\ cres \in {"true", "false"}
        /\ LET parts == SplitWs(cexpr) IN
           (Len(parts) # 5 \/ \E k \in 1..Len(parts) : Unparsable(parts[k]))
              => cres = "false"
        /\ SchedIdle

\* C8 witness: the evaluation of a field raised and the call returned False.
C8_Witness ==
    /\ cres = "false"
    /\ Len(SplitWs(cexpr)) = 5
    /\ CronBody(cexpr, cnow) = "raise"

\* C9: for a field base/step with step >= 1: base "*" matches iff
\* current % step = 0; base a-b iff a <= current <= b and
\* (current - a) % step = 0; base a iff current >= a and
\* (current - a) % step = 0.
C9_StepRule ==
    (cfres # None /\ Contains(cfield, "/")) =>
        LET p == Split(cfield, "/") IN
        (Len(p) = 2 /\ UInt(p[2]) /\ PyInt(p[2]) >= 1) =>
            LET base == p[1]
                step == PyInt(p[2])
            IN
            /\ base = "*" => cfres = Bool(ccur % step = 0)
            /\ IsRange(base) =>
                 LET a == PyInt(Split(base, "-")[1])
                     b == PyInt(Split(base, "-")[2])
                 IN cfres = Bool(a <= ccur /\ ccur <= b /\ (ccur - a) % step = 0)
            /\ UInt(base) =>
                 LET a == PyInt(base)
                 IN cfres = Bool(ccur >= a /\ (ccur - a) % step = 0)

\* C9 witness: a stepped range has matched a value above its start.
C9_Witness ==
    /\ cfres = "true"
    /\ Contains(cfield, "/")
    /\ LET p == Split(cfield, "/") IN
       /\ Len(p) = 2
       /\ IsRange(p[1])
       /\ ccur > PyInt(Split(p[1], "-")[1])

\* C10: for a field without "/": "*" matches; else a field with "-" matches
\* iff it is a range a-b and a <= current <= b; else a field with "," matches
\* iff str(current) is one of its items; else the field matches iff it is
\* str(current).
C10_PlainRules ==
    (cfres # None /\ ~Contains(cfield, "/")) =>
        ((cfres = "true") <=>
            IF cfield = "*" THEN TRUE
            ELSE IF Contains(cfield, "-")
            THEN /\ IsRange(cfield)
                 /\ PyInt(Split(cfield, "-")[1]) <= ccur
                 /\ ccur <= PyInt(Split(cfield, "-")[2])
            ELSE IF Contains(cfield, ",")
            THEN \E k \in 1..Len(Split(cfield, ",")) :
                     Split(cfield, ",")[k] = PyStr(ccur)
            ELSE cfield = PyStr(ccur))

\* C10 witness: a list has matched one of its items.
C10_Witness ==
    /\ cfres = "true"
    /\ Contains(cfield, ",")
    /\ ~Contains(cfield, "-")
    /\ ~Contains(cfield, "/")

\* the example of the schedule table: every third minute, 21h-23h, Thu-Sat
ExampleExpr == "*/3 21-23 * * 3,4,5"

\* 2025-10-16 is a Thursday, 2025-10-19 the Sunday after it
ExampleThursday == DatedInstant(2025, 10, 16, 22, 21)
ExampleSunday == DatedInstant(2025, 10, 19, 22, 21)

\* C11: _matches_cron returns True iff the expression has five fields and each
\* of minute, hour, day, month, day-of-week matches its field, the day of week
\* counted 0 = Monday .. 6 = Sunday; "*/3 21-23 * * 3,4,5" matches 22:21 on a
\* Thursday and does not match 22:21 on a Sunday.
C11_AllFiveFields ==
    cres # None =>
        /\ (cres = "true") <=>
              LET parts == SplitWs(cexpr) IN
              /\ Len(parts) = 5
              /\ matches_field(parts[1], cnow.minute) = "true"
              /\ matches_field(parts[2], cnow.hour) = "true"
              /\ matches_field(parts[3], cnow.day) = "true"
              /\ matches_field(parts[4], cnow.month) = "true"
              /\ matches_field(parts[5], cnow.weekday) = "true"
        /\ (cexpr = ExampleExpr /\ cnow = ExampleThursday) => cres = "true"
        /\ (cexpr = ExampleExpr /\ cnow = ExampleSunday) => cres = "false"
        /\ ExampleThursday.weekday = 3
        /\ ExampleSunday.weekday = 6

\* C11 witness: the example expression has been evaluated on the Thursday and
\* has matched.
C11_Witness ==
    /\ cres = "true"
    /\ cexpr = ExampleExpr
    /\ cnow = ExampleThursday

-----------------------------------------------------------------------------
(* Properties of the scrape request and the Time-Window Gate, checked under *)
(* SpecGate                                                                 *)

\* the request carries a date value, in the body or in the query
CarriesDate(req) == Truthy(req.date) \/ Truthy(req.qdate)

\* the request carries a true force flag, in the body or in the query
CarriesForce(req) == req.force = "True" \/ req.qforce = "1"

\* C12: scrape_handler answers 'outside window' only to a request that
\* carries neither a date value nor a true force flag.
C12_ExplicitBypass ==
    gres = "skipped" => (~CarriesDate(greq) /\ ~CarriesForce(greq))

\* the request passed validate_api_key and is not forced
Unforced == validate_api_key(gsecret, greq.key) = "ok" /\ ~Force(greq)

\* 2025-10-16 is a Thursday, 2025-10-13 the Monday before it
ThursdayEvening == DatedInstant(2025, 10, 16, 20, 0)
MondayEvening == DatedInstant(2025, 10, 13, 20, 0)

\* C13: for an unforced request the gate is open exactly when the New York
\* weekday is Thursday, Friday or Saturday and the hour is in 18..23; it is
\* open on Thursday at 20:00 and closed on Monday at 20:00.
C13_DefaultWindow ==
    (gres # None /\ Unforced) =>
        /\ (gres = "run") <=>
              (gnow.weekday \in {3, 4, 5} /\ gnow.hour \in 18..23)
        /\ gres \in {"run", "skipped"}
        /\ gnow = ThursdayEvening => gres = "run"
        /\ gnow = MondayEvening => gres = "skipped"
        /\ ThursdayEvening.weekday = 3
        /\ MondayEvening.weekday = 0

\* C13 witness: an unforced request of the API has passed the gate on the
\* Thursday at 20:00.
C13_Witness ==
    /\ gres = "run"
    /\ gorigin = "api"
    /\ Unforced
    /\ gnow = ThursdayEvening

\* a scheduled task built the request and the secret is configured
Scheduled == gorigin # "api" /\ Truthy(gsecret)

-----------------------------------------------------------------------------
(* Properties of the season resolution, checked under SpecSeason *)

\* the month get_current_season looks at
ReferenceMonth == IF sdate.given THEN sdate.month ELSE stoday.month

\* the seasons whose months contain m
SeasonsOf(m) ==
    {"fall" : x \in {m} \cap 8..11} \cup {"late_fall" : x \in {m} \cap 11..12}
    \cup {"winter" : x \in {m} \cap {12, 1, 2}}
    \cup {"late_winter" : x \in {m} \cap 2..3}
    \cup {"spring" : x \in {m} \cap 3..6}

DeclarationOrder == <<"fall", "late_fall", "winter", "late_winter", "spring">>

\* C15: the profiles are tried in the order fall, late_fall, winter,
\* late_winter, spring and the first one whose months contain the reference
\* month is returned; month 11 gives "fall".
C15_FirstMatchWins ==
    (sres # None /\ SeasonsOf(ReferenceMonth) # {}) =>
        /\ sres \in SeasonsOf(ReferenceMonth)
        /\ \A k \in 1..5 :
              DeclarationOrder[k] = sres =>
                 \A j \in 1..(k - 1) :
                    DeclarationOrder[j] \notin SeasonsOf(ReferenceMonth)
        /\ ReferenceMonth = 11 => sres = "fall"

\* C15 witness: a date in November has resolved to "fall".
C15_Witness ==
    /\ sres = "fall"
    /\ sdate.given
    /\ sdate.month = 11
    /\ "late_fall" \in SeasonsOf(ReferenceMonth)

\* C16: every month belongs to some profile, so get_current_season never
\* returns through its fallback.
C16_FullCoverage ==
    sres # None => svia = "months"

-----------------------------------------------------------------------------
(* Properties of fetch_with_retry, checked under SpecFetch / SpecFetchLive  *)

RetryableStatuses == {"429", "500", "502", "503", "504"}

LastSeen == fseen[Len(fseen)]

FetchOver == fpc \in {"returned", "raised"}

\* C17: with budget R the call returns exactly on the first response with
\* status 200; after a response with a retried status it sleeps a backoff
\* delay and sends one more request, at most R times, and raises on the
\* response to request R + 1; it sends at most R + 1 requests and always ends.
C17_BoundedRetry ==
    /\ [](/\ frequests <= fretries + 1
          /\ \A k \in 1..Len(fseen) :
                fseen[k] = "200" => (k = Len(fseen) /\ fpc = "returned")
          /\ fpc = "returned" => LastSeen = "200"
          /\ (fpc = "raised" /\ LastSeen \in RetryableStatuses)
                => (Len(fseen) = fretries + 1 /\ Len(fslept) = fretries)
          /\ (fpc = "backoff")
                => (LastSeen \in RetryableStatuses /\ Len(fseen) <= fretries
                    /\ Len(fslept) = frequests)
          /\ fpc \in {"get", "returned", "raised"}
                => Len(fslept) = frequests - 1
          /\ \A k \in 1..Len(fslept) :
                fslept[k] > 0 /\ (k > 1 => fslept[k] > fslept[k - 1]))
    /\ <>FetchOver

\* C17 witness: the whole budget of at least two retries was used and the
\* call has raised on a retried status.
C17_Witness ==
    /\ fpc = "raised"
    /\ fretries >= 2
    /\ Len(fslept) = fretries
    /\ LastSeen \in RetryableStatuses

\* C18: a response whose status is neither 200 nor one of 429, 500, 502, 503,
\* 504 is the last one: the call raises at once, with no request and no sleep
\* after it, whatever is left of the budget.
C18_NoRetryOnOtherStatus ==
    \A k \in 1..Len(fseen) :
        (fseen[k] \in Statuses \ ({"200"} \cup RetryableStatuses)) =>
            /\ k = Len(fseen)
            /\ fpc = "raised"
            /\ frequests = k
            /\ Len(fslept) = k - 1

\* C18 witness: the call has raised on a 404 with budget left.
C18_Witness ==
    /\ fpc = "raised"
    /\ LastSeen = "404"
    /\ fattempt < fretries

-----------------------------------------------------------------------------
(* Properties of the scrape pipeline, checked under SpecScrape *)

InFlight == {p \in DOMAIN xfetch : xfetch[p] = "running"}

\* the group of place p when states is cut into consecutive groups of
\* concurrency places, the groups counted from 0
GroupOf(p) == (p - 1) \div xconc

\* C19: the fetches in flight belong to one group of at most concurrency
\* consecutive states; every fetch of the groups before it is over, no fetch
\* of the groups after it has been created, and one pause has been slept per
\* group before it; meta follows the order of states.
C19_BatchesInSequence ==
    /\ Cardinality(InFlight) <= xconc
    /\ \A p \in InFlight : \A q \in DOMAIN xfetch :
          /\ GroupOf(q) < GroupOf(p) => xfetch[q] \in {"ok", "failed"}
          /\ GroupOf(q) > GroupOf(p) => xfetch[q] = "none"
    /\ \A p \in DOMAIN xfetch :
          xfetch[p] \in {"created", "running"} => xpauses = GroupOf(p)
    /\ \A p \in DOMAIN xfetch :
          xfetch[p] # "none" =>
             \A q \in DOMAIN xfetch :
                GroupOf(q) < GroupOf(p) => xfetch[q] \in {"ok", "failed"}
    /\ Len(xmeta) <= Len(xstates)
    /\ \A k \in 1..Len(xmeta) : xmeta[k].state_code = xstates[k]

\* C19 witness: a full second group is in flight after a first group in which
\* a fetch failed.
C19_Witness ==
    /\ xconc >= 2
    /\ Cardinality(InFlight) = xconc
    /\ \A p \in InFlight : GroupOf(p) = 1
    /\ \E q \in DOMAIN xfetch : GroupOf(q) = 0 /\ xfetch[q] = "failed"

\* number of records on the pages of the places 1..p that were fetched
RECURSIVE RecordsUpTo(_)
RecordsUpTo(p) ==
    IF p = 0 THEN 0
    ELSE RecordsUpTo(p - 1) + (IF xfetch[p] = "ok" THEN Len(xpage[p]) ELSE 0)

DistinctIds == {xrows[k].contest_id : k \in 1..Len(xrows)}

StartedTogether(p) ==
    /\ p \in DOMAIN xstart
    /\ p + 1 \in DOMAIN xstart
    /\ GroupOf(p) = GroupOf(p + 1)
    /\ xstart[p] # NoRun
    /\ xstart[p + 1] # NoRun

\* C21: inside one group the fetch of member i + 1 starts later than the
\* fetch of member i.
C21_StaggeredStarts ==
    \A p \in DOMAIN xstart :
        StartedTogether(p) => xstart[p + 1] > xstart[p]

-----------------------------------------------------------------------------
(* Properties of dedupe_by_contest_id, checked under SpecDedupe *)

\* C22: deduplicating an already deduplicated list leaves it as it is.
C22_DedupeIdempotent == dpc = 2 => dagain = dout

\* a list with a duplicate was deduplicated twice and a row is left
C22_Witness ==
    /\ dpc = 2
    /\ Len(dout) > 0
    /\ Len(dout) < Len(drows)
    /\ \A k \in 1..Len(drows) : Truthy(drows[k].contest_id)

\* the places of rows that hold the first row of a non-empty contest_id
FirstOccurrences(rows) ==
    {k \in 1..Len(rows) :
        /\ rows[k].contest_id \notin {"", None}
        /\ \A j \in 1..(k - 1) : rows[j].contest_id # rows[k].contest_id}

\* the subsequence of rows at the places of S
RECURSIVE Pick(_, _)
Pick(rows, S) ==
    IF rows = <<>> THEN <<>>
    ELSE LET front == Pick(SubSeq(rows, 1, Len(rows) - 1), S)
         IN  IF Len(rows) \in S THEN Append(front, rows[Len(rows)])
             ELSE front

\* C23: the result is the subsequence of the first rows of every non-empty
\* contest_id, in input order: no contest_id twice, every non-empty
\* contest_id of the input present, no row without a contest_id.
C23_FirstOccurrences ==
    dpc >= 1 =>
        /\ dout = Pick(drows, FirstOccurrences(drows))
        /\ \A j, k \in 1..Len(dout) :
              dout[j].contest_id = dout[k].contest_id => j = k
        /\ \A k \in 1..Len(drows) :
              drows[k].contest_id \notin {"", None} =>
                  \E j \in 1..Len(dout) :
                      dout[j].contest_id = drows[k].contest_id
        /\ \A j \in 1..Len(dout) : dout[j].contest_id \notin {"", None}

\* c1 scraped from two state pages around a row without contest_id: the
\* row of the first page is the one kept
C23_Witness ==
    /\ dpc = 1
    /\ Len(drows) = 3
    /\ drows[1].contest_id = "c1"
    /\ drows[2].contest_id = None
    /\ drows[3].contest_id = "c1"
    /\ drows[3].state_code # drows[1].state_code
    /\ dout = <<drows[1]>>

-----------------------------------------------------------------------------
(* Properties of chunked_upsert and the table, checked under SpecUpsert *)

\* the rows of the store calls made so far, in the order of the calls
RECURSIVE Sent(_)
Sent(calls) ==
    IF calls = <<>> THEN <<>>
    ELSE Sent(SubSeq(calls, 1, Len(calls) - 1)) \o calls[Len(calls)].chunk

\* ceil(n / c)
CeilDiv(n, c) == (n + c - 1) \div c

\* C24: a chunked_upsert that returned over N rows with chunk size C made
\* ceil(N / C) store calls; the chunks are consecutive slices of at most C
\* rows that, put end to end, are the input rows.
C24_ChunkCount ==
    /\ upc = "returned" =>
          /\ Len(ucalls) = CeilDiv(Len(urows), usize)
          /\ Sent(ucalls) = urows
    /\ Sent(ucalls) = SubSeq(urows, 1, Len(Sent(ucalls)))
    /\ \A k \in 1..Len(ucalls) :
          /\ Len(ucalls[k].chunk) <= usize
          /\ Len(ucalls[k].chunk) >= 1

\* three rows in chunks of two: two store calls, the second of one row
C24_Witness ==
    /\ upc = "returned"
    /\ Len(urows) = 3
    /\ usize = 2
    /\ Len(ucalls) = 2
    /\ Len(ucalls[2].chunk) = 1

\* the rows the successful store calls reported
RECURSIVE Reported(_)
Reported(calls) ==
    IF calls = <<>> THEN 0
    ELSE Reported(Tail(calls))
         + (IF Head(calls).ok THEN Len(Head(calls).chunk) ELSE 0)

\* C25: a failed store call does not end chunked_upsert: no exception
\* leaves it once a store call was made, it returns after ceil(N / C) calls
\* whatever their outcomes, and the returned total is the sum of the counts
\* of the successful calls.
C25_FailedChunkSkipped ==
    /\ upc = "raised" => ucalls = <<>>
    /\ upc = "chunk" => ui < Len(urows)
    /\ upc = "returned" =>
          /\ Len(ucalls) = CeilDiv(Len(urows), usize)
          /\ uret = Reported(ucalls)

\* the first of two store calls failed and the second succeeded
C25_Witness ==
    /\ upc = "returned"
    /\ Len(ucalls) = 2
    /\ ~ucalls[1].ok
    /\ ucalls[2].ok
    /\ uret = Len(ucalls[2].chunk)
    /\ uret < Len(urows)

\* every contest_id of rows is in table t
AllStored(rows, t) ==
    \A k \in 1..Len(rows) :
        \E j \in 1..Len(t) : t[j].contest_id = rows[k].contest_id

\* C26: the table never holds two rows of one contest_id, and a store call
\* of a scrape whose contest_ids are all stored leaves the number of rows
\* as it is.
C26_ScrapesConverge ==
    /\ [](\A j, k \in 1..Len(table) :
            table[j].contest_id = table[k].contest_id => j = k)
    /\ [][AllStored(urows, table) => Len(table') = Len(table)]_vars

\* a second scrape of the two stored contests wrote both rows: the table
\* still has two rows, now with the final score
C26_Witness ==
    /\ upass = 2
    /\ upc = "returned"
    /\ Len(ubefore) = 2
    /\ AllStored(urows, ubefore)
    /\ uret = 2
    /\ Len(table) = 2
    /\ ubefore[1].contest_state = "contest-in-progress"
    /\ table[1].contest_state = "boxscore"

-----------------------------------------------------------------------------
(* Properties of finalize, checked under SpecFinalize *)

\* the updates built for the row of that id
UpdatesOf(id) == {i \in 1..Len(zupdates) : zupdates[i].id = id}

\* the last store access of the call
LastAccess == IF zaccess = <<>> THEN None ELSE zaccess[Len(zaccess)]

\* the row as the finalize pass leaves it
Finalized(row) ==
    [row EXCEPT !.contest_state =
                    IF row.team1_score = None /\ row.team2_score = None
                    THEN "score-not-reported" ELSE "needs-verification",
                !.is_live = FALSE,
                !.details = "Final"]

\* C27: every returned row in contest-in-progress has exactly one update,
\* score-not-reported when both scores are absent and needs-verification
\* otherwise, with is_live false and details "Final"; a returned row in
\* another state has none; once the updates are written the table differs
\* from the table before the pass in the updated rows only.
C27_Classification ==
    /\ \A k \in 1..Len(zrows) :
          IF zrows[k].contest_state = "contest-in-progress"
          THEN /\ Cardinality(UpdatesOf(zrows[k].id)) = 1
               /\ \A i \in UpdatesOf(zrows[k].id) :
                     /\ zupdates[i].contest_state =
                            Finalized(zrows[k]).contest_state
                     /\ zupdates[i].is_live = FALSE
                     /\ zupdates[i].details = "Final"
          ELSE UpdatesOf(zrows[k].id) = {}
    /\ \A i \in 1..Len(zupdates) :
          \E k \in 1..Len(zrows) : zrows[k].id = zupdates[i].id
    /\ zpc # "idle" =>
          /\ Len(table) = Len(zbefore)
          /\ \A j \in 1..Len(table) :
                table[j] = IF LastAccess = "upsert"
                              /\ UpdatesOf(zbefore[j].id) # {}
                           THEN Finalized(zbefore[j])
                           ELSE zbefore[j]

\* a pass over a row with one score of 0, a row already in
\* needs-verification and a row without scores
C27_Witness ==
    /\ zpc = "done"
    /\ LastAccess = "upsert"
    /\ \E j \in 1..Len(table) :
          /\ zbefore[j].team1_score = "0"
          /\ zbefore[j].team2_score = None
          /\ table[j].contest_state = "needs-verification"
          /\ ~table[j].is_live
    /\ \E j \in 1..Len(table) :
          /\ zbefore[j].contest_state = "contest-in-progress"
          /\ table[j].contest_state = "score-not-reported"
    /\ \E k \in 1..Len(zrows) :
          /\ zrows[k].contest_state = "needs-verification"
          /\ table[zrows[k].id] = zbefore[zrows[k].id]

\* C28: a finalize with empty states or an empty sport answers with an
\* error and makes no store access: no client, no select, no upsert.
C28_FailFast ==
    (zpc = "done" /\ (zstates = <<>> \/ zsport = "")) =>
        /\ zresp.kind = "error"
        /\ zaccess = <<>>

Eligible ==
    {j \in 1..Len(zbefore) :
        /\ \E k \in 1..Len(zstates) : zstates[k] = zbefore[j].state_code
        /\ zbefore[j].sport = "FOOTBALL"
        /\ zbefore[j].contest_state \notin {"boxscore", "pregame"}}

EligibleInProgress ==
    {j \in Eligible : zbefore[j].contest_state = "contest-in-progress"}

\* the table {1: in progress without scores, 2: in progress 10-7,
\* 3: boxscore}
ExampleTable ==
    <<StoredRow(1, <<"al", "FOOTBALL", "contest-in-progress", None, None>>),
      StoredRow(2, <<"al", "FOOTBALL", "contest-in-progress", "10", "7">>),
      StoredRow(3, <<"al", "FOOTBALL", "boxscore", "21", "14">>)>>

\* C30: in a summary, rows is the number of rows the query returns (rows in
\* boxscore or pregame are not counted), rowsMissingScore +
\* rowsNeedingVerification is the number of updates built, which is the
\* number of returned rows in contest-in-progress and at most rows; for the
\* example table the summary is rows = 2, rowsMissingScore = 1,
\* rowsNeedingVerification = 1.
C30_SummaryConsistent ==
    (zpc = "done" /\ zresp.kind = "summary") =>
        /\ zresp.rows = Cardinality(Eligible)
        /\ zresp.rows = Len(zrows)
        /\ zresp.rowsMissingScore + zresp.rowsNeedingVerification
              = Len(zupdates)
        /\ Len(zupdates) = Cardinality(EligibleInProgress)
        /\ Len(zupdates) <= zresp.rows
        /\ zbefore = ExampleTable =>
              /\ zresp.rows = 2
              /\ zresp.rowsMissingScore = 1
              /\ zresp.rowsNeedingVerification = 1

\* the summary of the pass over the example table
C30_Witness ==
    /\ zpc = "done"
    /\ zbefore = ExampleTable
    /\ zresp.kind = "summary"
    /\ zresp.rows = 2
    /\ zresp.rowsSuccessfullyUpdated = 2
    /\ table[1].contest_state = "score-not-reported"
    /\ table[2].contest_state = "needs-verification"
    /\ table[3] = ExampleTable[3]

-----------------------------------------------------------------------------
(* Properties of scrape, checked under SpecExtract *)

\* the container lacks a contest id or has fewer than two team entries
Malformed(box) == box.contest_id \in {None, ""} \/ Len(box.teams) < 2

\* the containers a record is to be emitted for
WellFormed == {k \in 1..Len(ehtml) : ~Malformed(ehtml[k])}

\* every team entry of the containers a record is to be emitted for has its
\* .name element
WellFormedNamed ==
    \A k \in WellFormed :
        \A i \in 1..Len(ehtml[k].teams) : ehtml[k].teams[i] # None

\* C31: when the page holds a container without a contest id or with fewer
\* than two team entries, beside containers that are whole, scrape does not
\* raise, and it returns one record for every other container, in page
\* order, and none for a malformed one.
C31_MalformedSkipped ==
    (/\ epc # "idle"
     /\ WellFormedNamed
     /\ \E k \in 1..Len(ehtml) : Malformed(ehtml[k])) =>
        /\ epc = "returned"
        /\ Len(eout) = Cardinality(WellFormed)
        /\ \A j \in 1..Len(eout) :
              \E k \in WellFormed :
                  /\ eout[j].contest_id = ehtml[k].contest_id
                  /\ Cardinality({i \in WellFormed : i < k}) = j - 1

\* C40: a record scraped for a sport name that ends in -girls carries gender
\* Female, a record scraped for another sport name carries gender Male.
C40_GenderOfRecord ==
    \A j \in 1..Len(eout) :
        eout[j].gender =
            IF EndsWith(LowerOf(esport), "-girls") THEN "Female" ELSE "Male"

-----------------------------------------------------------------------------
(* Properties of the static schedule tables, checked under SpecTables *)

\* minutes since 00:00 UTC
TimeOfDay(now) == now.hour * 60 + now.minute

\* the time of day a finalize entry names in its minute and hour fields
FinalizeTime(entry) ==
    PyInt(SplitWs(entry.cron)[2]) * 60 + PyInt(SplitWs(entry.cron)[1])

\* datetime.weekday() of Friday, Saturday and Sunday
FridayToSunday == {4, 5, 6}

\* C33: a football finalize entry fires at its time of day on Friday,
\* Saturday and Sunday (UTC) and on no other weekday.
C33_FinalizeWeekdays ==
    (tpc = "done" /\ tsport = "football"
     /\ TimeOfDay(tnow) = FinalizeTime(FinalizeEntry(tsport, ttz))) =>
        (tfinalize <=> tnow.weekday \in FridayToSunday)

\* C38: from the time of day of the finalize entry of a sport and a timezone
\* until 12:00 UTC no scrape entry of that sport and timezone matches.
C38_FinalizeAfterScrapes ==
    (/\ tpc = "done"
     /\ TimeOfDay(tnow) >= FinalizeTime(FinalizeEntry(tsport, ttz))
     /\ TimeOfDay(tnow) <= 12 * 60) =>
        tscrape = {}

-----------------------------------------------------------------------------
(* Network errors of fetch_with_retry, checked under SpecFetch *)

\* C34: the call raises on a network error of client.get only when the
\* retry budget is spent: the error is that of request retries + 1, and a
\* backoff sleep followed each request before it.
C34_NetworkErrorRetried ==
    (fpc = "raised" /\ LastSeen = "error") =>
        /\ Len(fseen) = fretries + 1
        /\ Len(fslept) = fretries

-----------------------------------------------------------------------------
(* Start minutes of the scheduler loop, checked under Spec *)

\* C35: every task is started during a wall-clock minute that matches the
\* cron expression of its entry, also when an earlier task of the same
\* tick ran across a minute boundary.
C35_StartedInMatchingMinute ==
    \A f \in fired :
        matches_cron(tasks[f[1]].cron, TimeAt(f[2] * MinuteSeconds)) = "true"

-----------------------------------------------------------------------------
(* The default scheduled scrape and the gate, checked under SpecGate *)

\* "SCRAPE_SCHEDULE" unset: the default of setup_scheduled_tasks
DefaultSchedule == "0 20 * * 3,4,5"

\* the default_scrape entry under the default schedule has fired
DefaultScrapeFired == gorigin = "default_scrape" /\ gcron = DefaultSchedule

\* C39: whenever the default_scrape entry fires under the default schedule
\* (matched against New York time), the Time-Window Gate is open, and the
\* request it sends is not answered with the 'outside window' skip.
C39_DefaultScrapeInWindow ==
    DefaultScrapeFired =>
        /\ within_run_window_ny(gnow)
        /\ gres # "skipped"

\* C39 witness: a default scrape that fired on Thursday at 20:00 entered
\* the pipeline.
C39_Witness ==
    /\ DefaultScrapeFired
    /\ gnow.weekday = 3
    /\ gnow.hour = 20
    /\ gres = "run"

-----------------------------------------------------------------------------
(* Properties of the schedule setup, checked under SpecSetup *)

\* the timezones and actions the tables name an entry for
RegisteredFor(name) ==
    {<<TimezoneNames[k], "scrape">> :
        k \in {i \in 1..Len(TimezoneNames) :
                 \E j \in 1..Len(FOOTBALL_SCRAPE_SCHEDULES[TimezoneNames[i]]) :
                     FOOTBALL_SCRAPE_SCHEDULES[TimezoneNames[i]][j].name = name}}
    \cup
    {<<TimezoneNames[k], "finalize">> :
        k \in {i \in 1..Len(TimezoneNames) :
                 FOOTBALL_FINALIZE_SCHEDULES[TimezoneNames[i]].name = name}}

\* C32: every entry the setup registered for a timezone and football, when
\* it fires, runs the scrape or the finalize of its table for the states of
\* that timezone and for football, whatever the loop variable holds by then.
C32_NoLateBinding ==
    \A j \in 1..Len(wruns) :
        /\ Cardinality(RegisteredFor(wruns[j].name)) = 1
        /\ \A reg \in RegisteredFor(wruns[j].name) :
              wruns[j].ran =
                  Run(reg[2], TIMEZONE_MAPPINGS[reg[1]], "football")

\* C32 witness: after the setup, with the loop variable left at the last
\* timezone, an eastern scrape entry and a central finalize entry have fired.
C32_Witness ==
    /\ wpc = "done"
    /\ timezone_name = "hawaii"
    /\ Len(wruns) = 2
    /\ wruns[1].name = "football_scrape_eastern_2"
    /\ wruns[1].ran.states = TIMEZONE_MAPPINGS.eastern
    /\ wruns[2].name = "football_finalize_central"
    /\ wruns[2].ran.action = "finalize"

-----------------------------------------------------------------------------
(* Properties of successive passes, checked under SpecPasses *)

\* the kind of the pass made n passes before the last one
PassBack(n) == phist[Len(phist) - n]

\* two finalize passes in succession have returned
FinalizedTwice ==
    /\ Len(phist) >= 2
    /\ PassBack(0) = "finalize"
    /\ PassBack(1) = "finalize"

\* C36: when finalize has run twice in succession for the same states and
\* sport, with no scrape in between, the second pass has built no update,
\* made no upsert and left every stored row as it was.
C36_FinalizeIdempotent ==
    FinalizedTwice =>
        /\ pupdates = <<>>
        /\ pupserts = 0
        /\ table = pprev

\* C36 witness: finalize ran twice in succession on a table in which the
\* first of the two passes had rows to finalize.
C36_Witness ==
    /\ FinalizedTwice
    /\ pfinal # {}
    /\ \E k \in 1..Len(table) : table[k].contest_state = "needs-verification"
    /\ \E k \in 1..Len(table) : table[k].contest_state = "score-not-reported"

\* the state finalize moves rows out of
NonTerminal == {"contest-in-progress"}

\* C37: a row that a finalize pass has moved to score-not-reported or
\* needs-verification is not back in a non-terminal state after any later
\* scrape or finalize pass.
C37_TerminalStable ==
    \A k \in 1..Len(table) :
        table[k].id \in pfinal => table[k].contest_state \notin NonTerminal

====
